---- MODULE Spec2Model ----
(***************************************************************************)
(* Verification model of the Ren-C interpreter core: series storage        *)
(* (m-series.c), protection and freezing (n-protect.c, sys-series.h), the  *)
(* action executor (c-action.c), series nodes and contexts, the path       *)
(* conversions (mod-filesystem.c), integer math and scanning (t-integer.c, *)
(* l-types.c), REDUCE (n-reduce.c), CALL (call-posix.c) and the text       *)
(* operations (mod-utf.c, s-ops.c).  Each part has its own specification   *)
(* over the shared variable tuple; the variables a specification does not  *)
(* use keep their initial value.                                           *)
(***************************************************************************)
EXTENDS Integers, Sequences, FiniteSets, TLC

VARIABLES
    ser,        \* the dynamic series under test: [dynamic, bias, used, rest, cap]
    serOp,      \* last series operation applied ("init", "remove", "unbias", "fail")
    serOps,     \* number of series operations applied so far
    heap,       \* node -> sequence of the cells it holds (array / varlist / string)
    info,       \* node -> set of SERIES_INFO bits set on it
    perr,       \* error raised by the last protect-model operation, or "none"
    pop,        \* last protect-model operation
    pops,       \* number of protect-model operations applied so far
    varbits,    \* variable of context "o" -> set of cell flags set on it
    feeds,      \* the feeds: sequence of [arr, idx, flags]
    ds,         \* the data stack: sequence of pushed refinement words
    frames,     \* the frame stack, innermost frame last
    thrown,     \* the throw in flight: its label, or NoThrow
    vls,        \* every varlist node allocated by Push_Action
    run,        \* status of the run: [st, err, reent, out, last]
    stubs,      \* every series node made so far: [live, managed, inacc, ...]
    GC_Manuals, \* the manuals list: the nodes recorded as manually tracked
    access,     \* last operation on a node and what it gave: [op, n, res]
    stubOps,    \* number of node operations applied so far
    path,       \* a path text, the options and the current directory it is
                \* converted with, and the results: [kind, in, dir, full,
                \* nts, cwd, st, out, err, back, low]
    calc,       \* an integer operation or scan and what it gave
    red,        \* a REDUCE of a block: the frame of the native, the data
                \* stack it pushes to, and what it gave
    child,      \* a CALL: the steps of launching the child and the result
    txt,        \* a text operation (UTF-16 decoding, scan analysis, line
                \* splitting), its input and what it gave
    walk        \* a deep walk of Protect_Value in progress: the calls on
                \* the C stack and the count of visits of each node

vars == <<ser, serOp, serOps, heap, info, perr, pop, pops, varbits,
          feeds, ds, frames, thrown, vls, run,
          stubs, GC_Manuals, access, stubOps, path, calc, red, child, txt,
          walk>>
serVars == <<ser, serOp, serOps>>
protVars == <<heap, info, perr, pop, pops, varbits>>
actVars == <<feeds, ds, frames, thrown, vls, run>>
stubVars == <<stubs, GC_Manuals, access, stubOps>>
restVars == <<calc, red, child, txt, walk>>
coreVars == <<serVars, protVars, actVars, stubVars, path>>
notSer == <<protVars, actVars, stubVars, path, restVars>>
notProt == <<serVars, actVars, stubVars, path, restVars>>
notAct == <<serVars, protVars, stubVars, path, restVars>>
notStub == <<serVars, protVars, actVars, path, restVars>>
notPath == <<serVars, protVars, actVars, stubVars, restVars>>
notCalc == <<coreVars, red, child, txt, walk>>
notRed == <<coreVars, calc, child, txt, walk>>
notChild == <<coreVars, calc, red, txt, walk>>
notTxt == <<coreVars, calc, red, child, walk>>
notWalk == <<serVars, heap, perr, pop, pops, varbits, actVars, stubVars,
            path, calc, red, child, txt>>

\* The value of the variables of a part that a specification does not use.
SerIdle ==
    /\ ser = [dynamic |-> FALSE, bias |-> 0, used |-> 0, rest |-> 0, cap |-> 0]
    /\ serOp = "idle"
    /\ serOps = 0

ProtIdle ==
    /\ heap = <<>>
    /\ info = <<>>
    /\ perr = "none"
    /\ pop = "idle"
    /\ pops = 0
    /\ varbits = <<>>

ActIdle ==
    /\ feeds = <<>>
    /\ ds = <<>>
    /\ frames = <<>>
    /\ thrown = "idle"
    /\ vls = <<>>
    /\ run = "idle"

StubIdle ==
    /\ stubs = <<>>
    /\ GC_Manuals = <<>>
    /\ access = "idle"
    /\ stubOps = 0

PathIdle == path = "idle"

CalcIdle == calc = "idle"

RedIdle == red = "idle"

ChildIdle == child = "idle"

TxtIdle == txt = "idle"

WalkIdle == walk = "idle"

RestIdle == CalcIdle /\ RedIdle /\ ChildIdle /\ TxtIdle /\ WalkIdle

CoreIdle == SerIdle /\ ProtIdle /\ ActIdle /\ StubIdle /\ PathIdle

(***************************************************************************)
(* PART 1 -- series storage: Remove_Series_Units and Unbias_Series         *)
(***************************************************************************)

\* Bounds of the series model.
SmallCap == 4
MaxQty == 2
MaxSerOps == 4

\* m-series.c:177, the 16-bit limit of the bias field.
BiasLimit == 65535

\* m-series.c:198 uses MAX_SERIES_BIAS; the header that sets it (0x1000) is
\* not among the sources, the value is the one of the Ren-C headers.
MAX_SERIES_BIAS == 4096

Caps == {SmallCap, BiasLimit + MAX_SERIES_BIAS + SmallCap}

Quantities ==
    (0..MaxQty) \cup {MAX_SERIES_BIAS - 1, MAX_SERIES_BIAS,
                      BiasLimit - MAX_SERIES_BIAS + 2, BiasLimit + 1}

Offsets == (0..MaxQty) \cup {BiasLimit + 1}

\* Unbias_Series(s, keep): the bias is given back to rest; `keep` only
\* decides whether the data is moved, which the counters do not see.
Unbias_Series(s) ==
    IF s.bias = 0 THEN s
    ELSE [s EXCEPT !.bias = 0, !.rest = s.rest + s.bias]

\* REBLEN arithmetic is unsigned 32-bit: a difference below zero wraps to
\* 2^32 + a - b.  TLC's integers end at 2^31 - 1, so a wrapped
\* difference (which is above every capacity) is held at that largest value.
Sub32(a, b) == IF a >= b THEN a - b ELSE 2147483647

\* RemoveAtHead with the clip of quantity to used_old left out.
RemoveAtHead_NoClip(s, quantity) ==
    LET q == quantity
        used == Sub32(s.used, q)
    IN  IF used = 0
        THEN [s EXCEPT !.used = 0, !.bias = 0, !.rest = s.rest + s.bias]
        ELSE LET bias == s.bias + q
             IN  IF bias > BiasLimit
                 THEN [s EXCEPT !.used = used, !.bias = 0,
                                !.rest = s.rest + s.bias]
                 ELSE [s EXCEPT !.used = used, !.bias = bias,
                                !.rest = Sub32(s.rest, q)]

\* The head-removal branch of Remove_Series_Units (dynamic, byteoffset 0).
RemoveAtHead(s, quantity) ==
    LET q == IF quantity > s.used THEN s.used ELSE quantity
        used == Sub32(s.used, q)
    IN  IF used = 0
        THEN [s EXCEPT !.used = 0, !.bias = 0, !.rest = s.rest + s.bias]
        ELSE LET bias == s.bias + q
             IN  IF bias > BiasLimit
                 THEN [s EXCEPT !.used = used, !.bias = 0,
                                !.rest = s.rest + s.bias]
                 ELSE LET t == [s EXCEPT !.used = used, !.bias = bias,
                                         !.rest = Sub32(s.rest, q)]
                      IN  IF t.bias # 0
                             /\ (t.bias >= MAX_SERIES_BIAS \/ t.bias > t.rest)
                          THEN Unbias_Series(t)
                          ELSE t

\* Remove_Series_Units(s, byteoffset, quantity)
Remove_Series_Units(s, byteoffset, quantity) ==
    IF quantity = 0 THEN s
    ELSE IF s.dynamic /\ byteoffset = 0 THEN RemoveAtHead(s, quantity)
    ELSE IF byteoffset >= s.used THEN s
    ELSE IF quantity + byteoffset >= s.used THEN [s EXCEPT !.used = byteoffset]
    ELSE [s EXCEPT !.used = Sub32(s.used, quantity)]

InitSeries ==
    /\ \E cap \in Caps, used \in (0..SmallCap) \cup {BiasLimit + MAX_SERIES_BIAS},
             dyn \in BOOLEAN :
          /\ used <= cap
          /\ dyn \/ cap = SmallCap  \* content held in the node is small
          /\ ser = [dynamic |-> dyn, bias |-> 0, used |-> used,
                    rest |-> cap, cap |-> cap]
    /\ serOp = "init"
    /\ serOps = 0
    /\ ProtIdle
    /\ ActIdle
    /\ StubIdle
    /\ PathIdle
    /\ RestIdle

Remove ==
    /\ serOps < MaxSerOps
    /\ \E off \in Offsets, q \in Quantities :
          ser' = Remove_Series_Units(ser, off, q)
    /\ serOp' = "remove"
    /\ serOps' = serOps + 1
    /\ UNCHANGED notSer

Unbias ==
    /\ serOps < MaxSerOps
    /\ ser' = Unbias_Series(ser)
    /\ serOp' = "unbias"
    /\ serOps' = serOps + 1
    /\ UNCHANGED notSer

NextSeries == Remove \/ Unbias

SpecSeries == InitSeries /\ [][NextSeries]_vars

\* C5: for the dynamic series, after any sequence of removals and unbias
\* operations, used <= rest and bias + used <= the capacity allocated.
C5_SeriesBounds ==
    ser.dynamic => /\ ser.used <= ser.rest
                   /\ ser.bias + ser.used <= ser.cap

\* A head removal left a biased, non-empty dynamic series behind.
C5_Witness ==
    /\ ser.dynamic /\ serOp = "remove" /\ serOps >= 2
    /\ ser.bias > 0 /\ ser.used > 0

(***************************************************************************)
(* PART 2 -- protection and freezing: n-protect.c, sys-series.h            *)
(*                                                                         *)
(* The heap holds two arrays "a" and "b", one context (varlist) "o" and    *)
(* one string "s".  A cell is an integer or a reference to a node at an    *)
(* index (VAL_SERIES / VAL_INDEX, or VAL_CONTEXT).                         *)
(***************************************************************************)

\* Bound of the protect model: operations applied to one heap.
MaxProtOps == 2

Nodes == {"a", "b", "o", "s"}
ArrayNodes == {"a", "b"}
ContextNodes == {"o"}
StringNodes == {"s"}

IntV == [k |-> "int", s |-> "s", i |-> 0]
Ref(n, i) == [k |-> "ref", s |-> n, i |-> i]

\* The values a caller can hand to PROTECT, UNPROTECT or FREEZE.
Targets ==
    {Ref(n, i) : n \in ArrayNodes, i \in {0, 1}}
        \cup {Ref(n, 0) : n \in ContextNodes \cup StringNodes}

SetInfo(inf, n, bit) == [inf EXCEPT ![n] = @ \cup {bit}]
ClearInfo(inf, n, bit) == [inf EXCEPT ![n] = @ \ {bit}]

\* A flag update whose clearing branch also clears the frozen bits.
ProtBits_ClearFrozen(inf, n, fl) ==
    IF fl.set
    THEN IF fl.freeze
         THEN SetInfo(IF fl.deep THEN SetInfo(inf, n, "FROZEN_DEEP") ELSE inf,
                      n, "FROZEN_SHALLOW")
         ELSE SetInfo(inf, n, "PROTECTED")
    ELSE [inf EXCEPT ![n] = @ \ {"PROTECTED", "FROZEN_SHALLOW", "FROZEN_DEEP"}]

\* Protect_Series / Protect_Context: the flag update both start with.
ProtBits(inf, n, fl) ==
    IF fl.set
    THEN IF fl.freeze
         THEN SetInfo(IF fl.deep THEN SetInfo(inf, n, "FROZEN_DEEP") ELSE inf,
                      n, "FROZEN_SHALLOW")
         ELSE SetInfo(inf, n, "PROTECTED")
    ELSE ClearInfo(inf, n, "PROTECTED")

RECURSIVE Protect_Value(_, _, _)
RECURSIVE Protect_Series(_, _, _, _)
RECURSIVE Protect_Context(_, _, _)
RECURSIVE ProtectFrom(_, _, _, _)

\* The loops of Protect_Series and Protect_Context over cells j.. of node n.
ProtectFrom(inf, n, j, fl) ==
    IF j > Len(heap[n]) THEN inf
    ELSE ProtectFrom(Protect_Value(inf, heap[n][j], fl), n, j + 1, fl)

Protect_Series(inf, n, index, fl) ==
    IF "BLACK" \in inf[n] THEN inf
    ELSE LET marked == ProtBits(inf, n, fl)
         IN  IF n \notin ArrayNodes \/ ~fl.deep THEN marked
             ELSE ProtectFrom(SetInfo(marked, n, "BLACK"), n, index + 1, fl)

Protect_Context(inf, n, fl) ==
    IF "BLACK" \in inf[n] THEN inf
    ELSE LET marked == ProtBits(inf, n, fl)
         IN  IF ~fl.deep THEN marked
             ELSE ProtectFrom(SetInfo(marked, n, "BLACK"), n, 1, fl)

Protect_Value(inf, v, fl) ==
    IF v.k # "ref" THEN inf
    ELSE IF v.s \in ContextNodes THEN Protect_Context(inf, v.s, fl)
    ELSE Protect_Series(inf, v.s, v.i, fl)

RECURSIVE Uncolor_Array(_, _)
RECURSIVE UncolorFrom(_, _, _)

\* Uncolor / Uncolor_Array: flip a black array white and descend from its head.
Uncolor(inf, v) ==
    IF v.k = "ref" /\ v.s \in ArrayNodes \cup ContextNodes
    THEN Uncolor_Array(inf, v.s)
    ELSE inf

UncolorFrom(inf, n, j) ==
    IF j > Len(heap[n]) THEN inf
    ELSE UncolorFrom(Uncolor(inf, heap[n][j]), n, j + 1)

Uncolor_Array(inf, n) ==
    IF "BLACK" \notin inf[n] THEN inf
    ELSE UncolorFrom(ClearInfo(inf, n, "BLACK"), n, 1)

\* The tail of Protect_Unprotect_Core, left without its Uncolor.
Protect_Unprotect_Core_NoUncolor(inf, value, fl) ==
    Protect_Value(inf, value, fl)

\* Protect_Unprotect_Core for a value that is no word and no /words or
\* /values block: Protect_Value, then Uncolor if deep.
Protect_Unprotect_Core(inf, value, fl) ==
    LET done == Protect_Value(inf, value, fl)
    IN  IF fl.deep THEN Uncolor(done, value) ELSE done

ProtFlags(set, deep, freeze) == [set |-> set, deep |-> deep, freeze |-> freeze]

\* The flags the natives build: PROTECT gives PROT_SET with PROT_HIDE or
\* PROT_WORD, UNPROTECT gives PROT_WORD; /deep adds PROT_DEEP.
NativeFlags(set, deep, hide) ==
    [set |-> set, deep |-> deep, freeze |-> FALSE,
     word |-> ~(set /\ hide), hide |-> set /\ hide]

\* Protect_Var: the cell flags of variable j
Protect_Var(vb, j, fl) ==
    LET w == IF fl.word
             THEN [vb EXCEPT ![j] = IF fl.set THEN @ \cup {"PROTECTED"}
                                    ELSE @ \ {"PROTECTED"}]
             ELSE vb
    IN  IF fl.hide /\ fl.set
        THEN [w EXCEPT ![j] = @ \cup {"VAR_MARKED_HIDDEN"}]
        ELSE w

\* Lookup_Word_May_Fail for a word bound to variable j of context "o"
Lookup_Word_May_Fail(j) == heap["o"][j]

\* Protect_Word_Value for a bound word: [info, varbits]
Protect_Word_Value(st, j, fl) ==
    LET var == Lookup_Word_May_Fail(j)
        vb == Protect_Var(st.varbits, j, fl)
    IN  [info |-> IF fl.deep
                  THEN Uncolor(Protect_Value(st.info, var, fl), var)
                  ELSE st.info,
         varbits |-> vb]

\* The loop of the /words branch over the words w[i..]
RECURSIVE Protect_Words(_, _, _, _)
Protect_Words(st, w, i, fl) ==
    IF i > Len(w) THEN st
    ELSE Protect_Words(Protect_Word_Value(st, w[i], fl), w, i + 1, fl)

\* The loop of the /values branch over a block of words w[i..]: each
\* variable's value is protected and, if deep, uncolored.
RECURSIVE Protect_Values_Words(_, _, _, _)
Protect_Values_Words(inf, w, i, fl) ==
    IF i > Len(w) THEN inf
    ELSE LET var == Lookup_Word_May_Fail(w[i])
             done == Protect_Value(inf, var, fl)
         IN  Protect_Values_Words(IF fl.deep THEN Uncolor(done, var) ELSE done,
                                  w, i + 1, fl)

\* The loop of the /values branch over the items j.. of a block that holds
\* no word: for each item the cell copied into `safe` is the block `value`
\* itself, which is protected and, if deep, uncolored.
RECURSIVE Protect_Values_Items(_, _, _, _)
Protect_Values_Items(inf, value, j, fl) ==
    IF j > Len(heap[value.s]) THEN inf
    ELSE LET done == Protect_Value(inf, value, fl)
         IN  Protect_Values_Items(IF fl.deep THEN Uncolor(done, value)
                                  ELSE done,
                                  value, j + 1, fl)

\* An argument of PROTECT / UNPROTECT: m is "plain" (v, any target),
\* "words" or "values" (the block w of words bound to variables of "o", or
\* for "values" the block v of the heap), or "word" (the word w[1]).
WordBlocks == {<<1>>}
NoWords == <<>>
ProtArgs ==
    {[m |-> "plain", v |-> v, w |-> NoWords] : v \in Targets}
        \cup {[m |-> "values", v |-> Ref(n, i), w |-> NoWords] :
                  n \in ArrayNodes, i \in {0, 1}}
        \cup {[m |-> md, v |-> IntV, w |-> w] :
                  md \in {"word", "words", "values"}, w \in WordBlocks}

\* The node an argument names: the block, or the context of its words.
ArgNode(arg) == IF arg.w = NoWords THEN arg.v.s ELSE "o"

\* PROTECT* as the updater of Set_Var_Core_Updater_Throws: the variable the
\* word names gets or loses its flag.
Protect_P(st, j, fl) ==
    [info |-> st.info, varbits |-> Protect_Var(st.varbits, j, fl),
     err |-> "none"]

\* Protect_Unprotect_Core for every kind of argument: [info, varbits, err]
Protect_Unprotect_Native(inf, vb, arg, fl) ==
    IF arg.m = "word"
    THEN Protect_P([info |-> inf, varbits |-> vb], arg.w[1], fl)
    ELSE IF arg.m = "words"
    THEN LET r == Protect_Words([info |-> inf, varbits |-> vb], arg.w, 1, fl)
         IN  [info |-> r.info, varbits |-> r.varbits, err |-> "none"]
    ELSE IF arg.m = "values"
    THEN [info |-> IF arg.w = NoWords
                   THEN Protect_Values_Items(inf, arg.v, arg.v.i + 1, fl)
                   ELSE Protect_Values_Words(inf, arg.w, 1, fl),
          varbits |-> vb, err |-> "none"]
    ELSE IF fl.hide
    THEN [info |-> inf, varbits |-> vb, err |-> "bad-refines"]
    ELSE [info |-> Protect_Unprotect_Core(inf, arg.v, fl),
          varbits |-> vb, err |-> "none"]

\* Freeze_Array_Deep / Freeze_Array_Shallow (sys-array.h): the walk starts at
\* the head of the array.
Freeze_Array_Deep(inf, n) ==
    Uncolor_Array(Protect_Series(inf, n, 0, ProtFlags(TRUE, TRUE, TRUE)), n)

Freeze_Array_Shallow(inf, n) == SetInfo(inf, n, "FROZEN_SHALLOW")

\* Deep_Freeze_Context (sys-context.h)
Deep_Freeze_Context(inf, n) ==
    Uncolor_Array(Protect_Context(inf, n, ProtFlags(TRUE, TRUE, TRUE)), n)

\* Freeze_Series: a non-array is frozen shallow and deep at once (the comment
\* in Is_Value_Frozen_Deep); Freeze_Sequence of sys-series.h, no unfreeze.
Freeze_Series(inf, n) ==
    SetInfo(SetInfo(inf, n, "FROZEN_SHALLOW"), n, "FROZEN_DEEP")

Is_Value_Frozen_Deep(inf, v) ==
    IF v.k # "ref" THEN TRUE ELSE "FROZEN_DEEP" \in inf[v.s]

\* Force_Value_Frozen_Core(v, deep, locker): [info, err]
Force_Value_Frozen_Core(inf, v, deep, locker) ==
    IF Is_Value_Frozen_Deep(inf, v) THEN [info |-> inf, err |-> "none"]
    ELSE IF v.s \in ArrayNodes
    THEN LET frozen == IF deep THEN Freeze_Array_Deep(inf, v.s)
                       ELSE Freeze_Array_Shallow(inf, v.s)
         IN  [info |-> IF locker THEN SetInfo(frozen, v.s, "AUTO_LOCKED")
                       ELSE frozen,
              err |-> "none"]
    ELSE IF v.s \in ContextNodes
    THEN IF deep
         THEN LET frozen == Deep_Freeze_Context(inf, v.s)
              IN  [info |-> IF locker THEN SetInfo(frozen, v.s, "AUTO_LOCKED")
                            ELSE frozen,
                   err |-> "none"]
         ELSE [info |-> inf, err |-> "shallow-context-freeze"]
    ELSE LET frozen == Freeze_Series(inf, v.s)
         IN  [info |-> IF locker THEN SetInfo(frozen, v.s, "AUTO_LOCKED")
                       ELSE frozen,
              err |-> "none"]

\* Is_Series_Read_Only (sys-series.h)
Is_Series_Read_Only(bits) ==
    bits \cap {"FROZEN_SHALLOW", "HOLD", "PROTECTED"} # {}

\* FAIL_IF_READ_ONLY_SERIES with the held test put before the auto-locked one.
FAIL_IF_READ_ONLY_SERIES_HeldFirst(bits) ==
    IF Is_Series_Read_Only(bits)
    THEN IF "HOLD" \in bits THEN "series-held"
         ELSE IF "AUTO_LOCKED" \in bits THEN "series-auto-locked"
         ELSE IF "FROZEN_SHALLOW" \in bits THEN "series-frozen"
         ELSE "series-protected"
    ELSE "none"

\* FAIL_IF_READ_ONLY_SERIES (sys-series.h): the error raised, or "none".
FAIL_IF_READ_ONLY_SERIES(bits) ==
    IF Is_Series_Read_Only(bits)
    THEN IF "AUTO_LOCKED" \in bits THEN "series-auto-locked"
         ELSE IF "HOLD" \in bits THEN "series-held"
         ELSE IF "FROZEN_SHALLOW" \in bits THEN "series-frozen"
         ELSE "series-protected"
    ELSE "none"

\* The heaps the operations are tried on: cycles, references at an index
\* past the head, contexts inside arrays and arrays inside contexts.  The
\* varlist "o" may belong to a frame whose native is running (HOLD set).
InitHeaps ==
    {[a |-> <<a1, a2>>, b |-> <<b1, IntV>>, o |-> <<o1>>, s |-> <<IntV>>] :
        a1 \in {Ref("b", 0), Ref("a", 1)},
        a2 \in {IntV, Ref("o", 0)},
        b1 \in {IntV, Ref("a", 0), Ref("s", 0)},
        o1 \in {Ref("a", 1), Ref("o", 0)}}

InitProtect ==
    /\ heap \in InitHeaps
    /\ \E held \in BOOLEAN :
          info = [n \in Nodes |-> IF held /\ n = "o" THEN {"HOLD"} ELSE {}]
    /\ perr = "none"
    /\ pop = [op |-> "init", n |-> "a"]
    /\ pops = 0
    /\ varbits = [j \in 1..1 |-> {}]
    /\ SerIdle
    /\ ActIdle
    /\ StubIdle
    /\ PathIdle
    /\ RestIdle

\* PROTECT value, PROTECT/DEEP value
Protect ==
    /\ pops < MaxProtOps
    /\ \E v \in Targets, deep \in BOOLEAN :
          /\ info' = Protect_Unprotect_Core(info, v, ProtFlags(TRUE, deep, FALSE))
          /\ pop' = [op |-> "protect", n |-> v.s]
    /\ perr' = "none"
    /\ pops' = pops + 1
    /\ UNCHANGED <<heap, varbits, notProt>>

\* UNPROTECT value, UNPROTECT/DEEP value
Unprotect ==
    /\ pops < MaxProtOps
    /\ \E v \in Targets, deep \in BOOLEAN :
          /\ info' = Protect_Unprotect_Core(info, v, ProtFlags(FALSE, deep, FALSE))
          /\ pop' = [op |-> "unprotect", n |-> v.s]
    /\ perr' = "none"
    /\ pops' = pops + 1
    /\ UNCHANGED <<heap, varbits, notProt>>

\* FREEZE value, FREEZE/DEEP value: no locker
Freeze ==
    /\ pops < MaxProtOps
    /\ \E v \in Targets, deep \in BOOLEAN :
          LET r == Force_Value_Frozen_Core(info, v, deep, FALSE)
          IN  /\ info' = r.info
              /\ perr' = r.err
              /\ pop' = [op |-> "freeze", n |-> v.s]
    /\ pops' = pops + 1
    /\ UNCHANGED <<heap, varbits, notProt>>

\* Force_Value_Frozen_Core with a locker: the system locks a value itself.
AutoLock ==
    /\ pops < MaxProtOps
    /\ \E v \in Targets, deep \in BOOLEAN :
          LET r == Force_Value_Frozen_Core(info, v, deep, TRUE)
          IN  /\ info' = r.info
              /\ perr' = r.err
              /\ pop' = [op |-> "autolock", n |-> v.s]
    /\ pops' = pops + 1
    /\ UNCHANGED <<heap, varbits, notProt>>

\* A native runs on the frame whose varlist is "o": Action_Executor sets HOLD.
HoldVarlist ==
    /\ pops < MaxProtOps
    /\ "HOLD" \notin info["o"]
    /\ info' = SetInfo(info, "o", "HOLD")
    /\ pop' = [op |-> "hold", n |-> "o"]
    /\ perr' = "none"
    /\ pops' = pops + 1
    /\ UNCHANGED <<heap, varbits, notProt>>

\* Drop_Action on the frame whose varlist is "o" clears HOLD.
ReleaseVarlist ==
    /\ pops < MaxProtOps
    /\ "HOLD" \in info["o"]
    /\ info' = ClearInfo(info, "o", "HOLD")
    /\ pop' = [op |-> "release", n |-> "o"]
    /\ perr' = "none"
    /\ pops' = pops + 1
    /\ UNCHANGED <<heap, varbits, notProt>>

\* A mutation attempt: the series is checked with FAIL_IF_READ_ONLY_SERIES
\* and, if that raises nothing, its cell j is overwritten.
Mutate ==
    /\ pops < MaxProtOps
    /\ \E n \in Nodes :
        \E j \in 1..Len(heap[n]) :
          LET e == FAIL_IF_READ_ONLY_SERIES(info[n])
          IN  /\ perr' = e
              /\ heap' = IF e = "none"
                         THEN [heap EXCEPT ![n][j] =
                                 IF @ = IntV THEN Ref("b", 0) ELSE IntV]
                         ELSE heap
              /\ pop' = [op |-> "mutate", n |-> n]
    /\ pops' = pops + 1
    /\ UNCHANGED <<info, varbits, notProt>>

NextProtect ==
    \/ Protect \/ Unprotect \/ Freeze \/ AutoLock
    \/ HoldVarlist \/ ReleaseVarlist \/ Mutate

SpecProtect == InitProtect /\ [][NextProtect]_vars

\* The nodes a cell of node n refers to, and the nodes reachable from n.
Children(n) == {heap[n][j].s : j \in {x \in 1..Len(heap[n]) : heap[n][x].k = "ref"}}

RECURSIVE ReachFrom(_, _)
ReachFrom(seen, frontier) ==
    IF frontier = {} THEN seen
    ELSE LET next == UNION {Children(n) : n \in frontier} \ seen
         IN  ReachFrom(seen \cup next, next)

Reachable(n) == ReachFrom(Children(n), Children(n))

\* C6: whenever an array carries FROZEN_DEEP, every array reachable from it
\* (through any of its cells) is at least FROZEN_SHALLOW and every reachable
\* context is FROZEN_DEEP.
C6_FrozenDeepClosed ==
    \A n \in ArrayNodes :
        "FROZEN_DEEP" \in info[n] =>
            \A m \in Reachable(n) :
                /\ m \in ArrayNodes => "FROZEN_SHALLOW" \in info[m]
                /\ m \in ContextNodes => "FROZEN_DEEP" \in info[m]

\* C8: a mutation attempt on a series with any of the hold, auto-locked,
\* frozen or protected bits raises exactly the most specific error and
\* leaves the series as it was.
C8_ReadOnlyError ==
    [][pop'.op = "mutate" =>
        LET bits == info[pop'.n]
        IN  bits \cap {"HOLD", "AUTO_LOCKED", "FROZEN_SHALLOW", "FROZEN_DEEP",
                       "PROTECTED"} # {} =>
              /\ perr' = IF "AUTO_LOCKED" \in bits THEN "series-auto-locked"
                         ELSE IF "HOLD" \in bits THEN "series-held"
                         ELSE IF bits \cap {"FROZEN_SHALLOW", "FROZEN_DEEP"} # {}
                              THEN "series-frozen"
                         ELSE "series-protected"
              /\ heap' = heap /\ info' = info]_vars

\* A mutation of the held varlist that the system had also locked was refused.
C8_Witness ==
    /\ pop.op = "mutate" /\ perr = "series-auto-locked"
    /\ "HOLD" \in info[pop.n]

(***************************************************************************)
(* PART 3 -- the action executor: c-action.c                               *)
(*                                                                         *)
(* The frame stack is run by the trampoline: the innermost frame's         *)
(* executor takes a step; it may push a sub-frame, complete (its result    *)
(* goes to the cell the frame was pushed on) or throw.  An action of this  *)
(* part is one labelled segment of Action_Executor; the evaluator, which   *)
(* feeds it, is modelled as far as the action executor relies on it.       *)
(***************************************************************************)

\* Bounds: dispatcher redo signals and continuations in one run.
MaxReentry == 2

\* ---- cells ----
Cell(k, v) == [k |-> k, v |-> v, stale |-> FALSE, uneval |-> FALSE]
FreshCell == Cell("fresh", 0)
IntCell(n) == Cell("int", n)
Nulled == Cell("null", 0)
NoneCell == Cell("none", 0)
BlankCell == Cell("blank", 0)
Blackhole == Cell("blackhole", 0)
EndIsotope == Cell("end", 0)
VoidIsotope == Cell("void", 0)

Is_Fresh(c) == c.k = "fresh"
Is_Stale(c) == c.stale
Is_Void(c) == c.k = "fresh"
Was_Eval_Step_Void(c) == c.k = "fresh" /\ ~c.stale
Mark_Eval_Out_Stale(c) == [c EXCEPT !.stale = TRUE]
Clear_Stale_Flag(c) == [c EXCEPT !.stale = FALSE]

\* ---- source values ----
IntTok(n) == [t |-> "int", v |-> n, w |-> "", refs |-> <<>>]
WordTok(w) == [t |-> "word", v |-> 0, w |-> w, refs |-> <<>>]
PathTok(w, refs) == [t |-> "path", v |-> 0, w |-> w, refs |-> refs]
EndTok == [t |-> "end", v |-> 0, w |-> "", refs |-> <<>>]

\* ---- parameters and actions ----
Param(sym, class, refine, empty, special) ==
    [sym |-> sym, class |-> class, refine |-> refine, empty |-> empty,
     special |-> special, noop |-> FALSE]
NormalParam(sym) == Param(sym, "normal", FALSE, FALSE, FALSE)
RefineParam(sym) == Param(sym, "normal", TRUE, FALSE, FALSE)
FlagParam(sym) == Param(sym, "normal", TRUE, TRUE, FALSE)
LocalParam(sym) == Param(sym, "normal", FALSE, FALSE, TRUE)
\* A hard-quoted parameter.
HardParam(sym) == Param(sym, "hard", FALSE, FALSE, FALSE)
\* A <blank> parameter: a BLANK! argument makes the call a no-op.
NoopIfBlankParam(sym) == [NormalParam(sym) EXCEPT !.noop = TRUE]

\* The actions of the runs:
\*   + and *   enfixed natives of two normal parameters
\*   foo       func [a /b [integer!] /c [integer!] /d]
\*   bar       func [a /c [integer!] /b [integer!]]
\*   act       a composite action of phases "act" and "act-core", with a
\*             normal parameter (<blank> in the inner phase) and a local;
\*             its dispatcher is arbitrary
\*   nat       a native of one normal parameter; its dispatcher is arbitrary
\*   lit       enfixed, of one hard-quoted parameter, which it returns
\*   then      an enfixed native of two normal parameters that defers its
\*             lookback
\*   quo       func ['x y]
ActNames == {"+", "*", "foo", "bar", "act", "nat", "lit", "then", "quo"}

ACT_PARAMS(phase) ==
    CASE phase \in {"+", "*", "then"} ->
            <<NormalParam("value1"), NormalParam("value2")>>
      [] phase = "quo" -> <<HardParam("x"), NormalParam("y")>>
      [] phase = "foo" -> <<NormalParam("a"), RefineParam("b"),
                            RefineParam("c"), FlagParam("d")>>
      [] phase = "bar" -> <<NormalParam("a"), RefineParam("c"),
                            RefineParam("b")>>
      [] phase = "lit" -> <<HardParam("x")>>
      [] phase = "act-core" -> <<NoopIfBlankParam("x"), LocalParam("loc")>>
      [] OTHER -> <<NormalParam("x"), LocalParam("loc")>>

ENFIXED(act) == act \in {"+", "*", "lit", "then"}
DEFERS_LOOKBACK(act) == act \in {"then"}
POSTPONES_ENTIRELY(act) == act \in {}
IS_NATIVE(phase) == phase \in {"+", "*", "nat", "act-core", "then"}

\* The phases a dispatcher of the phase may hand the frame to with a redo.
RedoPhases(phase) ==
    IF phase \in {"act", "act-core"} THEN {"act", "act-core"} ELSE {phase}

\* Is_Specialized: the slot of a local holds its specialized value (~).
Is_Specialized(param) == param.special
SpecializedValue(param) == NoneCell

\* Typecheck_Including_Constraints: the parameters here take integer!.
Typecheck_Including_Constraints(param, arg) == arg.k = "int"

\* Typecheck_Refinement: null (unused), # for a refinement without argument,
\* or an argument of the refinement's type.
Typecheck_Refinement(param, arg) ==
    \/ arg.k = "null"
    \/ IF param.empty THEN arg.k = "blackhole"
       ELSE Typecheck_Including_Constraints(param, arg)

\* ---- feeds ----
Feed(arr) == [arr |-> arr, idx |-> 1, flags |-> {}]
FeedValue(fd) == IF fd.idx > Len(fd.arr) THEN EndTok ELSE fd.arr[fd.idx]
Is_End(tok) == tok.t = "end"
Fetch_Next_In_Feed(fd) == [fd EXCEPT !.idx = @ + 1]
SET_FEED_FLAG(fd, flag) == [fd EXCEPT !.flags = @ \cup {flag}]
CLEAR_FEED_FLAG(fd, flag) == [fd EXCEPT !.flags = @ \ {flag}]
GET_FEED_FLAG(fd, flag) == flag \in fd.flags

\* Lookup_Word: the action a word is bound to, or "" for none.
Lookup_Word(tok) == IF tok.t = "word" /\ tok.w \in ActNames THEN tok.w ELSE ""

\* The block a continuation or delegation of an arbitrary dispatcher runs.
BodyArr == <<WordTok("nat"), IntTok(1)>>

\* The source blocks of the runs.
Programs ==
    {<<IntTok(1), WordTok("+"), IntTok(2), WordTok("*"), IntTok(3)>>,
     <<PathTok("foo", <<"c", "b">>), IntTok(10), IntTok(20), IntTok(30)>>,
     <<PathTok("foo", <<"b", "c">>), IntTok(10), IntTok(20), IntTok(30)>>,
     <<PathTok("bar", <<"c", "b">>), IntTok(10), IntTok(20), IntTok(30)>>,
     <<PathTok("foo", <<"d", "b">>), IntTok(10), IntTok(20)>>,
     <<WordTok("foo"), IntTok(10)>>,
     <<PathTok("foo", <<"x">>), IntTok(10)>>,
     <<PathTok("foo", <<"b", "b">>), IntTok(10), IntTok(20), IntTok(30)>>,
     <<PathTok("foo", <<"d", "x">>), IntTok(10)>>,
     <<PathTok("foo", <<"c", "b">>), WordTok("act"), IntTok(1), IntTok(20),
       IntTok(30)>>,
     <<WordTok("act"), IntTok(1)>>,
     <<IntTok(5), WordTok("nat"), IntTok(1)>>,
     <<WordTok("act")>>,
     <<IntTok(10), WordTok("lit")>>,
     <<IntTok(1), WordTok("+"), IntTok(2), WordTok("lit")>>,
     <<WordTok("bar"), IntTok(1), WordTok("then"), IntTok(2)>>,
     <<PathTok("bar", <<"c">>), IntTok(1), WordTok("then"), IntTok(2),
       IntTok(3)>>,
     <<WordTok("quo"), IntTok(1), WordTok("then"), IntTok(2)>>,
     <<WordTok("quo"), IntTok(1), IntTok(2)>>}

\* ---- throw labels ----
NoThrow == [redo |-> FALSE, bind |-> 0, phase |-> "", any |-> FALSE]
OtherThrow == [redo |-> FALSE, bind |-> 0, phase |-> "", any |-> TRUE]
RedoThrow(vl, phase) == [redo |-> TRUE, bind |-> vl, phase |-> phase, any |-> TRUE]
THROWING == thrown.any

\* ---- frames ----
\* One record shape for every frame; an evaluator frame leaves the action
\* fields at their empty values.  key = 0 stands for the null key pointer,
\* vl = 0 for a null varlist; sig is the last signal of the dispatcher and
\* tc tells that a type-check pass has accepted the arguments of the phase
\* since the dispatcher last ran.
EvalFrame(feed, out, dest, flags, pc, base) ==
    [ex |-> "eval", feed |-> feed, out |-> out, dest |-> dest,
     flags |-> flags, pc |-> pc, state |-> "", original |-> "",
     phase |-> "", key |-> 0, key_tail |-> 0, args |-> <<>>,
     baseline |-> base, vl |-> 0, sig |-> "none", tc |-> FALSE]

Top == frames[Len(frames)]
SetTop(f) == [frames EXCEPT ![Len(frames)] = f]
DSP == Len(ds)
TopFeed == feeds[Top.feed]

Get_Executor_Flag(f, flag) == flag \in f.flags
Set_Executor_Flag(f, flag) == [f EXCEPT !.flags = @ \cup {flag}]
Clear_Executor_Flag(f, flag) == [f EXCEPT !.flags = @ \ {flag}]

\* Is_Action_Frame_Fulfilling: the key pointer has not reached the tail.
Is_Action_Frame_Fulfilling(f) == f.key # f.key_tail

\* A varlist node as Push_Action allocates it.  exit is "live" while its
\* frame runs and then tells how the frame was left.
NewVarlist ==
    [managed |-> FALSE, hold |-> FALSE, invoked |-> FALSE, exit |-> "live"]

\* Push_Action and Begin_Action_Core on a frame pushed over the feed: the
\* action frame, with varlist number vl.
Push_Action(act, feed, out, dest, flags, base, vl, enfix) ==
    [ex |-> "action", feed |-> feed, out |-> out, dest |-> dest,
     flags |-> IF enfix THEN flags \cup {"RUNNING_ENFIX"} ELSE flags,
     pc |-> "fulfill", state |-> "INITIAL_ENTRY", original |-> act,
     phase |-> act, key |-> 1, key_tail |-> Len(ACT_PARAMS(act)) + 1,
     args |-> [i \in 1..Len(ACT_PARAMS(act)) |-> FreshCell],
     baseline |-> base, vl |-> vl, sig |-> "none", tc |-> FALSE,
     prior |-> out]

\* The outcome of one segment of the executor: the frame, its feed and the
\* data stack after it, whether it pushed a sub-frame for ARG (la: the
\* sub-frame starts by looking ahead from the value already in ARG) and the
\* error it failed with, if any.
Seg(f, fd, dstk) ==
    [f |-> f, fd |-> fd, ds |-> dstk, push |-> FALSE, la |-> FALSE, err |-> ""]
SegPush(f, fd, dstk, la) ==
    [f |-> f, fd |-> fd, ds |-> dstk, push |-> TRUE, la |-> la, err |-> ""]
SegFail(f, fd, dstk, err) ==
    [f |-> f, fd |-> fd, ds |-> dstk, push |-> FALSE, la |-> FALSE, err |-> err]

SetArg(f, c) == [f EXCEPT !.args[f.key] = c]

\* fulfill_and_any_pickups_done
\* fulfill_and_any_pickups_done going on to the type check whatever the
\* frame's flags.
Fulfill_Done_AlwaysTypecheck(f) ==
    [f EXCEPT !.key = 0, !.key_tail = 0, !.state = "TYPECHECKING",
              !.pc = "typecheck"]

Fulfill_Done(f) ==
    LET g == [f EXCEPT !.key = 0, !.key_tail = 0]
    IN  IF Get_Executor_Flag(g, "FULFILL_ONLY")
        THEN [g EXCEPT !.pc = "complete"]
        ELSE [g EXCEPT !.state = "TYPECHECKING", !.pc = "typecheck"]

\* continue_fulfilling stepping over two keys at a time.
Continue_Fulfilling_Overrun(f, dstk) ==
    IF f.state = "DOING_PICKUPS"
    THEN IF Len(dstk) # f.baseline
         THEN [f EXCEPT !.pc = "pickup"]
         ELSE Fulfill_Done(f)
    ELSE [f EXCEPT !.key = @ + 2, !.pc = "fulfill"]

\* continue_fulfilling
Continue_Fulfilling(f, dstk) ==
    IF f.state = "DOING_PICKUPS"
    THEN IF Len(dstk) # f.baseline
         THEN [f EXCEPT !.pc = "pickup"]
         ELSE Fulfill_Done(f)
    ELSE [f EXCEPT !.key = @ + 1, !.pc = "fulfill"]

\* Did_Init_Inert_Optimize_Complete: an inert value is taken literally with
\* no sub-frame, unless an enfix word follows it and lookahead is allowed.
Did_Init_Inert_Optimize_Complete(fd) ==
    LET tok == FeedValue(fd)
        fd1 == Fetch_Next_In_Feed(fd)
        lit == [IntCell(tok.v) EXCEPT !.uneval = TRUE]
        act == Lookup_Word(FeedValue(fd1))
    IN  IF tok.t # "int"
        THEN [complete |-> FALSE, arg |-> FreshCell, fd |-> fd, la |-> FALSE]
        ELSE IF act # "" /\ ENFIXED(act)
                /\ ~GET_FEED_FLAG(fd1, "NO_LOOKAHEAD")
        THEN [complete |-> FALSE, arg |-> lit, fd |-> fd1, la |-> TRUE]
        ELSE [complete |-> TRUE, arg |-> lit,
              fd |-> CLEAR_FEED_FLAG(fd1, "NO_LOOKAHEAD"), la |-> FALSE]

\* An enfix action that never sets NO_LOOKAHEAD.
EnfixSetsNoLookahead_Never(f) == FALSE

\* Action_Executor: the enfix action that has taken its left argument from
\* OUT sets NO_LOOKAHEAD unless it postpones or defers.
EnfixSetsNoLookahead(f) ==
    /\ Get_Executor_Flag(f, "RUNNING_ENFIX")
    /\ ~POSTPONES_ENTIRELY(f.phase)
    /\ ~DEFERS_LOOKBACK(f.phase)

\* The argument from OUT with the test of a hard-quoted parameter left out.
Fulfill_From_Out_NoQuoteCheck(f, fd0, dstk) ==
    LET fd == CLEAR_FEED_FLAG(fd0, "NEXT_ARG_FROM_OUT")
        g == SetArg(f, [f.out EXCEPT !.stale = FALSE])
        fd2 == IF EnfixSetsNoLookahead(f)
               THEN SET_FEED_FLAG(fd, "NO_LOOKAHEAD") ELSE fd
        h == [g EXCEPT !.out = Mark_Eval_Out_Stale(@)]
    IN  Seg(Continue_Fulfilling(h, dstk), fd2, dstk)

\* fulfill_arg, when the argument is in the OUT cell (enfix)
Fulfill_From_Out(f, fd0, dstk) ==
    LET fd == CLEAR_FEED_FLAG(fd0, "NEXT_ARG_FROM_OUT")
    IN  IF Was_Eval_Step_Void(f.out)
        THEN Seg(Continue_Fulfilling(SetArg(f, VoidIsotope), dstk), fd, dstk)
        ELSE IF Is_Stale(f.out)
        THEN Seg(Continue_Fulfilling(SetArg(f, EndIsotope), dstk), fd, dstk)
        ELSE IF ACT_PARAMS(f.original)[f.key].class = "hard"
                /\ ~f.out.uneval
        THEN SegFail(f, fd, dstk, "evaluative-quote")
        ELSE LET hard == ACT_PARAMS(f.original)[f.key].class = "hard"
                 g == SetArg(f, [f.out EXCEPT !.stale = FALSE,
                                              !.uneval = @ \/ hard])
                 fd2 == IF EnfixSetsNoLookahead(f)
                        THEN SET_FEED_FLAG(fd, "NO_LOOKAHEAD") ELSE fd
                 h == [g EXCEPT !.out = Mark_Eval_Out_Stale(@)]
             IN  Seg(Continue_Fulfilling(h, dstk), fd2, dstk)

\* Lookahead_To_Sync_Enfix_Defer_Flag: after a quoted argument was taken,
\* an enfixed action that defers its lookback sets DEFERRING_ENFIX.
Lookahead_To_Sync_Enfix_Defer_Flag(fd0) ==
    LET fd == CLEAR_FEED_FLAG(fd0, "NO_LOOKAHEAD")
        act == Lookup_Word(FeedValue(fd))
    IN  IF act = "" \/ ~ENFIXED(act) THEN fd
        ELSE IF DEFERS_LOOKBACK(act)
        THEN SET_FEED_FLAG(fd, "DEFERRING_ENFIX")
        ELSE fd

\* Literal_Next_In_Frame: the next value of the feed, taken as it is
Literal_Next(fd) ==
    LET tok == FeedValue(fd)
    IN  [IF tok.t = "int" THEN IntCell(tok.v) ELSE Cell("word", 0)
            EXCEPT !.uneval = TRUE]

\* The rest of fulfill_arg once the argument is known to come from the
\* callsite and the feed is not deferring
Gather_From_Feed(f, fd, dstk) ==
        IF Is_End(FeedValue(fd))
        THEN Seg(Continue_Fulfilling(SetArg(f, EndIsotope), dstk), fd, dstk)
        ELSE IF ACT_PARAMS(f.original)[f.key].class = "hard"
        THEN Seg(Continue_Fulfilling(SetArg(f, Literal_Next(fd)), dstk),
                 Lookahead_To_Sync_Enfix_Defer_Flag(Fetch_Next_In_Feed(fd)),
                 dstk)
        ELSE IF GET_FEED_FLAG(fd, "BARRIER_HIT")
        THEN Seg(Continue_Fulfilling(SetArg(f, EndIsotope), dstk), fd, dstk)
        ELSE LET opt == Did_Init_Inert_Optimize_Complete(fd)
             IN  IF opt.complete
                 THEN Seg(Continue_Fulfilling(SetArg(f, opt.arg), dstk),
                          CLEAR_FEED_FLAG(opt.fd, "NO_LOOKAHEAD"), dstk)
                 ELSE SegPush([SetArg(f, opt.arg) EXCEPT !.pc = "arg_wait"],
                              opt.fd, dstk, opt.la)

\* fulfill_arg from the callsite without the test of DEFERRING_ENFIX
Fulfill_From_Feed_NoDeferCheck(f, fd0, dstk) ==
    Gather_From_Feed(f, IF Get_Executor_Flag(f, "RUNNING_ENFIX") THEN fd0
                        ELSE CLEAR_FEED_FLAG(fd0, "NO_LOOKAHEAD"), dstk)

\* fulfill_arg, when the argument comes from the callsite
Fulfill_From_Feed(f, fd0, dstk) ==
    LET fd == IF Get_Executor_Flag(f, "RUNNING_ENFIX") THEN fd0
              ELSE CLEAR_FEED_FLAG(fd0, "NO_LOOKAHEAD")
    IN  IF GET_FEED_FLAG(fd, "DEFERRING_ENFIX")
        THEN SegFail(f, fd, dstk, "ambiguous-infix")
        ELSE Gather_From_Feed(f, fd, dstk)

\* fulfill_arg
Fulfill_Arg(f, fd, dstk) ==
    IF ACT_PARAMS(f.original)[f.key].class = "return"
    THEN Seg(Continue_Fulfilling(SetArg(f, NoneCell), dstk), fd, dstk)
    ELSE IF GET_FEED_FLAG(fd, "NEXT_ARG_FROM_OUT")
    THEN Fulfill_From_Out(f, fd, dstk)
    ELSE Fulfill_From_Feed(f, fd, dstk)

\* The ordered-refinement scan of the loop body: the position on the data
\* stack of the topmost pushed word that names the parameter, or 0.
OrderedMatch(f, dstk) ==
    LET sym == ACT_PARAMS(f.original)[f.key].sym
        hits == {i \in (f.baseline + 1)..Len(dstk) : dstk[i].sym = sym}
    IN  IF hits = {} THEN 0
        ELSE CHOOSE i \in hits : \A j \in hits : j <= i

\* fulfill_loop_body: one iteration of the fulfillment loop, for KEY
Fulfill_Loop_Body(f, fd, dstk) ==
    LET param == ACT_PARAMS(f.original)[f.key]
        hit == OrderedMatch(f, dstk)
    IN  IF Is_Specialized(param)
        THEN Seg(Continue_Fulfilling(SetArg(f, SpecializedValue(param)), dstk),
                 fd, dstk)
        ELSE IF hit # 0
        THEN LET bound == [dstk EXCEPT ![hit].idx = f.key, ![hit].vl = f.vl]
             IN  IF param.empty
                 THEN Seg(Continue_Fulfilling(SetArg(f, Blackhole), bound),
                          fd, bound)
                 ELSE Seg([f EXCEPT !.key = @ + 1], fd, bound)
        ELSE IF param.refine
        THEN Seg(Continue_Fulfilling(SetArg(f, Nulled), dstk), fd, dstk)
        ELSE Fulfill_Arg(f, fd, dstk)

\* next_pickup taking the pushed words from the bottom of the frame's part of
\* the stack instead of from DS_TOP.
Next_Pickup_FromBottom(f, fd, dstk) ==
    LET low == dstk[f.baseline + 1]
        g == [f EXCEPT !.key = low.idx]
        rest == SubSeq(dstk, 1, f.baseline)
                  \o SubSeq(dstk, f.baseline + 2, Len(dstk))
    IN  IF low.idx = 0
        THEN SegFail(f, fd, dstk, "bad-parameter")
        ELSE IF ACT_PARAMS(f.original)[g.key].empty
        THEN IF Len(rest) # f.baseline
             THEN Seg([g EXCEPT !.pc = "pickup"], fd, rest)
             ELSE Seg(Fulfill_Done(g), fd, rest)
        ELSE Fulfill_Arg([g EXCEPT !.args[g.key] = FreshCell,
                                   !.state = "DOING_PICKUPS"], fd, rest)

\* next_pickup dropping a word the loop did not index instead of failing.
Next_Pickup_DropUnbound(f, fd, dstk) ==
    LET top == dstk[Len(dstk)]
        g == [f EXCEPT !.key = top.idx]
        rest == SubSeq(dstk, 1, Len(dstk) - 1)
    IN  IF top.idx = 0 \/ ACT_PARAMS(f.original)[g.key].empty
        THEN IF Len(rest) # f.baseline
             THEN Seg([f EXCEPT !.pc = "pickup"], fd, rest)
             ELSE Seg(Fulfill_Done(f), fd, rest)
        ELSE Fulfill_Arg([g EXCEPT !.args[g.key] = FreshCell,
                                   !.state = "DOING_PICKUPS"], fd, rest)

\* next_pickup: go back to the parameter the topmost pushed word was bound
\* to, drop the word and fulfill the parameter from the callsite.
Next_Pickup(f, fd, dstk) ==
    LET top == dstk[Len(dstk)]
        g == [f EXCEPT !.key = top.idx]
        rest == SubSeq(dstk, 1, Len(dstk) - 1)
    IN  IF top.idx = 0
        THEN SegFail(f, fd, dstk, "bad-parameter")
        ELSE IF ACT_PARAMS(f.original)[g.key].empty
        THEN IF Len(rest) # f.baseline
             THEN Seg([g EXCEPT !.pc = "pickup"], fd, rest)
             ELSE Seg(Fulfill_Done(g), fd, rest)
        ELSE Fulfill_Arg([g EXCEPT !.args[g.key] = FreshCell,
                                   !.state = "DOING_PICKUPS"], fd, rest)

\* The exit of the fulfillment loop: pickups if words are left on the stack.
Fulfill_Loop_Exit(f, fd, dstk) ==
    IF Len(dstk) # f.baseline
    THEN Next_Pickup(f, fd, dstk)
    ELSE Seg(Fulfill_Done(f), fd, dstk)

\* typecheck_then_dispatch: what the pass makes of one argument, and the
\* error it raises for it ("" if it accepts it).
TypecheckedArg(param, arg) ==
    IF Is_Specialized(param) \/ param.class = "return" THEN arg
    ELSE IF arg.k \in {"none", "end", "void"} THEN Nulled
    ELSE arg

\* A BLANK! for a <blank> parameter: the call becomes TYPECHECK_ONLY.
NoopIfBlank(param, arg) ==
    /\ ~Is_Specialized(param) /\ param.class # "return" /\ ~param.refine
    /\ param.noop /\ arg.k = "blank"

TypecheckError(param, arg) ==
    IF Is_Specialized(param) \/ param.class = "return" THEN ""
    ELSE IF arg.k = "end" THEN "no-arg"
    ELSE IF arg.k = "void" THEN "bad-void"
    ELSE IF param.refine
    THEN IF Typecheck_Refinement(param, TypecheckedArg(param, arg)) THEN ""
         ELSE "bad-refinement"
    ELSE IF NoopIfBlank(param, arg) THEN ""
    ELSE IF Typecheck_Including_Constraints(param, TypecheckedArg(param, arg))
    THEN "" ELSE "arg-type"

\* typecheck_then_dispatch with the pass left out.
Typecheck_Then_Dispatch_Unchecked(f) ==
    [f |-> [f EXCEPT !.out = Mark_Eval_Out_Stale(@), !.pc = "dispatch"],
     err |-> ""]

\* typecheck_then_dispatch: the pass over the arguments of the phase.
Typecheck_Then_Dispatch(f) ==
    LET params == ACT_PARAMS(f.phase)
        bad == {i \in 1..Len(params) : TypecheckError(params[i], f.args[i]) # ""}
        first == CHOOSE i \in bad : \A j \in bad : i <= j
        noop == \E i \in 1..Len(params) : NoopIfBlank(params[i], f.args[i])
        g == IF noop
             THEN [Set_Executor_Flag(f, "TYPECHECK_ONLY") EXCEPT !.out = Nulled]
             ELSE [f EXCEPT !.out = Mark_Eval_Out_Stale(@)]
    IN  IF bad # {}
        THEN [f |-> g, err |-> TypecheckError(params[first], f.args[first])]
        ELSE [f |-> [g EXCEPT !.args = [i \in 1..Len(params) |->
                                          TypecheckedArg(params[i], f.args[i])],
                              !.tc = TRUE, !.pc = "dispatch"],
              err |-> ""]

\* Drop_Action: a managed varlist is detached from the frame as it is; an
\* unmanaged one is kept for reuse with HOLD and FRAME_HAS_BEEN_INVOKED
\* cleared.  The executor of the frame becomes null.
Drop_Action(f, nodes) ==
    LET g == [f EXCEPT !.flags = @ \ {"RUNNING_ENFIX", "FULFILL_ONLY"},
                       !.ex = "none"]
    IN  IF nodes[f.vl].managed
        THEN [f |-> [g EXCEPT !.vl = 0], vls |-> nodes]
        ELSE [f |-> g,
              vls |-> [nodes EXCEPT ![f.vl].hold = FALSE,
                                    ![f.vl].invoked = FALSE]]

\* handle_thrown_maybe_redo without the test of the label's binding.
Is_Redo_Of_AnyFrame(f, label) == label.redo

\* handle_thrown_maybe_redo: is the throw a REDO of this very frame?
Is_Redo_Of(f, label) == label.redo /\ label.bind = f.vl

\* handle_thrown_maybe_redo, the catch: reset the specialized arguments of
\* the redo phase, install it and go back to type checking.
Catch_Redo(f, label) ==
    LET params == ACT_PARAMS(label.phase)
    IN  [f EXCEPT !.args = [i \in 1..Len(params) |->
                              IF Is_Specialized(params[i])
                              THEN SpecializedValue(params[i]) ELSE f.args[i]],
                  !.phase = label.phase, !.state = "TYPECHECKING",
                  !.flags = @ \ {"DISPATCHER_CATCHES"}, !.tc = FALSE,
                  !.pc = "typecheck"]

\* DS_DROP_TO
DS_DROP_TO(dstk, dsp) == SubSeq(dstk, 1, dsp)

\* The end of handle_thrown_maybe_redo with the data stack left as it is.
Unwind_Thrown_KeepStack(f, dstk, nodes) ==
    LET d == Drop_Action(f, nodes)
    IN  [f |-> d.f, vls |-> d.vls, ds |-> dstk]

\* handle_thrown_maybe_redo, the throw is not for this frame: Drop_Action,
\* then the data stack goes back to the frame's baseline.
Unwind_Thrown(f, dstk, nodes) ==
    LET d == Drop_Action(f, nodes)
    IN  [f |-> d.f, vls |-> d.vls, ds |-> DS_DROP_TO(dstk, f.baseline)]

\* ---- the trampoline ----
Running == run.st = "running" /\ frames # <<>>
Pop == SubSeq(frames, 1, Len(frames) - 1)

\* The frame below receives the result in the cell the sub-frame was pushed
\* on: its OUT, the ARG it is fulfilling, or a cell it does not look at.
Deliver(stk, out, dest) ==
    IF stk = <<>> THEN stk
    ELSE LET p == stk[Len(stk)]
             q == IF dest = "out" THEN [p EXCEPT !.out = out]
                  ELSE IF dest = "arg" THEN [p EXCEPT !.args[p.key] = out]
                  ELSE p
         IN  [stk EXCEPT ![Len(stk)] =
                IF q.pc = "arg_wait" THEN [q EXCEPT !.pc = "arg_done"] ELSE q]

\* What is recorded of the last exit of an action frame.
NoExit == [how |-> "none", vl |-> 0, base |-> 0, dsp |-> 0, ex |-> "",
           detached |-> FALSE, out |-> FreshCell, prior |-> FreshCell,
           flags |-> {}, sig |-> "none"]
ExitRec(how, f, dropped, dsp, out) ==
    [how |-> how, vl |-> f.vl, base |-> f.baseline, dsp |-> dsp,
     ex |-> dropped.ex, detached |-> dropped.vl = 0, out |-> out,
     prior |-> f.prior, flags |-> f.flags, sig |-> f.sig]

\* fail(): the run ends with the error; the trampoline unwinds every frame.
Fail(err) ==
    /\ frames' = <<>>
    /\ ds' = <<>>
    /\ thrown' = NoThrow
    /\ vls' = [i \in 1..Len(vls) |->
                 IF vls[i].exit = "live" THEN [vls[i] EXCEPT !.exit = "fail"]
                 ELSE vls[i]]
    /\ run' = [run EXCEPT !.st = "failed", !.err = err]
    /\ UNCHANGED feeds

InitAction ==
    /\ \E prog \in Programs : feeds = <<Feed(prog)>>
    /\ ds = <<>>
    /\ frames = <<EvalFrame(1, FreshCell, "top", {}, "initial", 0)>>
    /\ thrown = NoThrow
    /\ vls = <<>>
    /\ run = [st |-> "running", err |-> "", reent |-> 0,
              out |-> FreshCell, last |-> NoExit]
    /\ SerIdle
    /\ ProtIdle
    /\ StubIdle
    /\ PathIdle
    /\ RestIdle

\* ---- the evaluator, as far as the action executor relies on it ----

\* The evaluator has finished a step of frame f, whose feed is now fd.
FinishStep(f, fd) ==
    /\ feeds' = [feeds EXCEPT ![f.feed] = fd]
    /\ IF "SINGLE_STEP" \in f.flags \/ Is_End(FeedValue(fd))
       THEN /\ frames' = Deliver(Pop, f.out, f.dest)
            /\ run' = IF Len(frames) = 1
                      THEN [run EXCEPT !.st = "done", !.out = f.out]
                      ELSE run
       ELSE /\ frames' = SetTop([f EXCEPT !.pc = "initial"])
            /\ run' = run
    /\ UNCHANGED <<ds, thrown, vls>>

\* The words a path pushes: `foo:c:b` leaves C on top of the stack, B below.
PushRefinements(dstk, refs) ==
    dstk \o [i \in 1..Len(refs) |->
               [sym |-> refs[Len(refs) + 1 - i], idx |-> 0, vl |-> 0]]

\* The flags a caller gives the frame of an action: none, MAYBE_STALE (the
\* caller wants to see a stale OUT), or FULFILL_ONLY (the caller only wants
\* the arguments gathered; OUT is fresh then).
CallFlags(act, f) ==
    IF Len(frames) # 1 THEN {{}}
    ELSE {{}} \cup (IF ~Is_Fresh(f.out) /\ act = "nat"
                    THEN {{"MAYBE_STALE"}} ELSE {})
              \cup (IF Is_Fresh(f.out) /\ act \in {"foo", "bar"}
                    THEN {{"FULFILL_ONLY"}} ELSE {})

\* The evaluator starts an expression: a literal goes to OUT; a word or path
\* that names an action pushes the refinements and then the action's frame.
EvalStart ==
    /\ Running /\ ~THROWING
    /\ UNCHANGED notAct
    /\ Top.ex = "eval" /\ Top.pc = "initial"
    /\ LET f == Top
           fd == TopFeed
           tok == FeedValue(fd)
           next == Fetch_Next_In_Feed(fd)
       IN  IF Is_End(tok) THEN FinishStep(f, fd)
           ELSE IF tok.t = "int"
           THEN /\ frames' = SetTop([f EXCEPT
                        !.out = [IntCell(tok.v) EXCEPT !.uneval = TRUE],
                        !.pc = "lookahead"])
                /\ feeds' = [feeds EXCEPT ![f.feed] = next]
                /\ UNCHANGED <<ds, thrown, vls, run>>
           ELSE IF tok.w \in ActNames /\ ~ENFIXED(tok.w)
           THEN /\ \E fl \in CallFlags(tok.w, f) :
                     frames' = Append(SetTop([f EXCEPT !.pc = "lookahead"]),
                        Push_Action(tok.w, f.feed, f.out, "out", fl, DSP,
                                    Len(vls) + 1, FALSE))
                /\ vls' = Append(vls, [NewVarlist EXCEPT !.invoked = TRUE])
                /\ ds' = PushRefinements(ds, tok.refs)
                /\ feeds' = [feeds EXCEPT ![f.feed] = next]
                /\ UNCHANGED <<thrown, run>>
           ELSE Fail("no-left-value")

\* The evaluator looks ahead after a value: an enfixed action takes the value
\* in OUT as its first argument, unless NO_LOOKAHEAD forbids it.  While an
\* argument is being fulfilled, an action that defers its lookback is left
\* in the feed with DEFERRING_ENFIX set; the flag is cleared when the
\* enfixed action is run.
EvalLookahead ==
    /\ Running /\ ~THROWING
    /\ UNCHANGED notAct
    /\ Top.ex = "eval" /\ Top.pc = "lookahead"
    /\ LET f == Top
           fd == TopFeed
           act == Lookup_Word(FeedValue(fd))
       IN  IF act # "" /\ ENFIXED(act) /\ ~GET_FEED_FLAG(fd, "NO_LOOKAHEAD")
              /\ ~Is_Fresh(f.out)
           THEN IF /\ DEFERS_LOOKBACK(act)
                   /\ Get_Executor_Flag(f, "FULFILLING_ARG")
                   /\ ~GET_FEED_FLAG(fd, "DEFERRING_ENFIX")
                THEN FinishStep(f, SET_FEED_FLAG(fd, "DEFERRING_ENFIX"))
                ELSE
                /\ frames' = Append(frames,
                        Push_Action(act, f.feed, f.out, "out", {}, DSP,
                                    Len(vls) + 1, TRUE))
                /\ vls' = Append(vls, [NewVarlist EXCEPT !.invoked = TRUE])
                /\ feeds' = [feeds EXCEPT ![f.feed] =
                        CLEAR_FEED_FLAG(
                            CLEAR_FEED_FLAG(
                                SET_FEED_FLAG(Fetch_Next_In_Feed(fd),
                                              "NEXT_ARG_FROM_OUT"),
                                "NO_LOOKAHEAD"),
                            "DEFERRING_ENFIX")]
                /\ UNCHANGED <<ds, thrown, run>>
           ELSE FinishStep(f, CLEAR_FEED_FLAG(fd, "NO_LOOKAHEAD"))

\* A throw reaches an evaluator frame: it is not caught there.
EvalThrown ==
    /\ Running /\ THROWING
    /\ UNCHANGED notAct
    /\ Top.ex = "eval"
    /\ frames' = Pop
    /\ run' = IF Len(frames) = 1 THEN [run EXCEPT !.st = "thrown"] ELSE run
    /\ UNCHANGED <<feeds, ds, thrown, vls>>

\* ---- Action_Executor ----

\* The outcome of a segment becomes the next state.
ApplySeg(s) ==
    IF s.err # "" THEN Fail(s.err)
    ELSE /\ feeds' = [feeds EXCEPT ![Top.feed] = s.fd]
         /\ ds' = s.ds
         /\ frames' =
              IF s.push
              THEN Append(SetTop(s.f),
                     EvalFrame(Top.feed,
                               IF s.la THEN s.f.args[s.f.key] ELSE FreshCell,
                               "arg", {"SINGLE_STEP", "FULFILLING_ARG"},
                               IF s.la THEN "lookahead" ELSE "initial",
                               Len(s.ds)))
              ELSE SetTop(s.f)
         /\ UNCHANGED <<thrown, vls, run>>

\* fulfill: one turn of the fulfillment loop, or its exit into the pickups.
Fulfill ==
    /\ Running /\ ~THROWING
    /\ UNCHANGED notAct
    /\ Top.ex = "action" /\ Top.pc = "fulfill"
    /\ LET f == [Top EXCEPT !.state = IF @ = "INITIAL_ENTRY"
                                      THEN "FULFILLING_ARGS" ELSE @]
       IN  IF f.key # f.key_tail
           THEN ApplySeg(Fulfill_Loop_Body(f, TopFeed, ds))
           ELSE ApplySeg(Fulfill_Loop_Exit(f, TopFeed, ds))

\* The executor is entered again after the sub-frame has put the argument
\* in ARG: continue_fulfilling.
ArgFulfilled ==
    /\ Running /\ ~THROWING
    /\ UNCHANGED notAct
    /\ Top.ex = "action" /\ Top.pc = "arg_done"
    /\ LET f == IF Is_Void(Top.args[Top.key]) THEN SetArg(Top, VoidIsotope)
                ELSE Top
       IN  ApplySeg(Seg(Continue_Fulfilling(f, ds), TopFeed, ds))

\* next_pickup, reached from continue_fulfilling
Pickup ==
    /\ Running /\ ~THROWING
    /\ UNCHANGED notAct
    /\ Top.ex = "action" /\ Top.pc = "pickup"
    /\ ApplySeg(Next_Pickup(Top, TopFeed, ds))

\* typecheck_then_dispatch
Typecheck ==
    /\ Running /\ ~THROWING
    /\ UNCHANGED notAct
    /\ Top.ex = "action" /\ Top.pc = "typecheck"
    /\ LET r == Typecheck_Then_Dispatch(Top)
       IN  IF r.err # "" THEN Fail(r.err)
           ELSE /\ frames' = SetTop(r.f)
                /\ UNCHANGED <<feeds, ds, thrown, vls, run>>

\* The dispatchers of + * foo bar return a value; those of act and nat are
\* arbitrary code and may return any signal.
Arbitrary(phase) == phase \in {"act", "act-core", "nat"}

Signals(f) ==
    IF Arbitrary(f.phase)
    THEN {"OUT", "NULL", "VOID", "THROWN", "UNHANDLED"}
           \cup (IF run.reent < MaxReentry
                 THEN {"REDO_UNCHECKED", "REDO_CHECKED"} ELSE {})
           \cup (IF run.reent < MaxReentry
                 THEN {"CONTINUATION", "DELEGATION"} ELSE {})
    ELSE {"OUT"}

\* What the dispatcher did to the frame's variables before it returned.
Touches(sig, label) ==
    IF sig \in {"REDO_UNCHECKED", "REDO_CHECKED"} \/ label.redo
    THEN {"keep", "x-blank", "loc-set"} ELSE {"keep"}

Touch(f, touch) ==
    IF touch = "x-blank" THEN [f EXCEPT !.args[1] = BlankCell]
    ELSE IF touch = "loc-set" THEN [f EXCEPT !.args[2] = IntCell(7)]
    ELSE f

\* The labels a dispatcher can throw: some other label, or REDO bound to an
\* action frame that is running its dispatcher (which makes a FRAME! value
\* of that frame, so its varlist is managed).
RedoTargets ==
    {i \in 1..Len(frames) :
        /\ frames[i].ex = "action"
        /\ (i = Len(frames) \/ frames[i].state = "DISPATCHING")}

Labels ==
    {OtherThrow} \cup
    (IF run.reent < MaxReentry
     THEN UNION {{RedoThrow(frames[i].vl, ph) :
                    ph \in RedoPhases(frames[i].phase)} : i \in RedoTargets}
     ELSE {})

\* The value a dispatcher leaves in OUT.
DispatchValue(f) ==
    IF f.phase = "+" THEN IntCell(f.args[1].v + f.args[2].v)
    ELSE IF f.phase = "*" THEN IntCell(f.args[1].v * f.args[2].v)
    ELSE IF f.phase = "then" /\ f.args[2].k = "int"
    THEN IntCell(f.args[2].v)
    ELSE IF f.args[1].k = "int" THEN IntCell(f.args[1].v)
    ELSE Nulled

\* The dispatcher has returned sig for frame f (already touched).
AfterDispatch(f, sig, catches, label, phase) ==
    LET g == [f EXCEPT !.sig = sig]
    IN  CASE sig = "OUT" ->
               /\ frames' = SetTop([g EXCEPT !.out = DispatchValue(f),
                                             !.pc = "complete"])
               /\ UNCHANGED <<feeds, thrown>>
               /\ run' = run
          [] sig = "NULL" ->
               /\ frames' = SetTop([g EXCEPT !.out = Nulled, !.pc = "complete"])
               /\ UNCHANGED <<feeds, thrown>>
               /\ run' = run
          [] sig = "VOID" ->
               /\ frames' = SetTop([g EXCEPT !.pc = "complete"])
               /\ UNCHANGED <<feeds, thrown>>
               /\ run' = run
          [] sig = "CONTINUATION" ->
               /\ frames' = Append(
                    SetTop([g EXCEPT !.pc = "dispatch_phase",
                                     !.flags = IF catches
                                               THEN @ \cup {"DISPATCHER_CATCHES"}
                                               ELSE @]),
                    EvalFrame(Len(feeds) + 1, FreshCell, "spare", {},
                              "initial", DSP))
               /\ feeds' = Append(feeds, Feed(BodyArr))
               /\ run' = [run EXCEPT !.reent = @ + 1]
               /\ UNCHANGED thrown
          [] sig = "DELEGATION" ->
               /\ frames' = Append(
                    SetTop([g EXCEPT !.pc = "delegated", !.state = "DELEGATE",
                                     !.flags = @ \cup {"DELEGATE_CONTROL"}]),
                    EvalFrame(Len(feeds) + 1, FreshCell, "out", {},
                              "initial", DSP))
               /\ feeds' = Append(feeds, Feed(BodyArr))
               /\ run' = [run EXCEPT !.reent = @ + 1]
               /\ UNCHANGED thrown
          [] sig = "THROWN" ->
               /\ frames' = SetTop([g EXCEPT !.pc = "thrown"])
               /\ thrown' = label
               /\ run' = IF label.redo THEN [run EXCEPT !.reent = @ + 1]
                         ELSE run
               /\ UNCHANGED feeds
          [] sig = "REDO_UNCHECKED" ->
               /\ frames' = SetTop([g EXCEPT !.phase = phase, !.tc = FALSE,
                                             !.pc = "dispatch"])
               /\ run' = [run EXCEPT !.reent = @ + 1]
               /\ UNCHANGED <<feeds, thrown>>
          [] sig = "REDO_CHECKED" ->
               /\ frames' = SetTop([g EXCEPT !.phase = phase, !.tc = FALSE,
                                             !.state = "TYPECHECKING",
                                             !.pc = "typecheck"])
               /\ run' = [run EXCEPT !.reent = @ + 1]
               /\ UNCHANGED <<feeds, thrown>>

\* dispatch and dispatch_phase: the dispatcher of the phase runs (for a
\* native, with HOLD set on the varlist) and its signal is acted on.
Dispatch ==
    /\ Running /\ ~THROWING
    /\ UNCHANGED notAct
    /\ Top.ex = "action" /\ Top.pc \in {"dispatch", "dispatch_phase"}
    /\ LET f0 == Top
           pending == f0.pc = "dispatch"
                        /\ GET_FEED_FLAG(TopFeed, "NEXT_ARG_FROM_OUT")
           f1 == IF pending THEN [f0 EXCEPT !.out = Mark_Eval_Out_Stale(@)]
                 ELSE f0
           f2 == [f1 EXCEPT !.state = "DISPATCHING",
                            !.flags = @ \ {"DISPATCHER_CATCHES"}]
           held == IF IS_NATIVE(f2.phase)
                   THEN [vls EXCEPT ![f2.vl].hold = TRUE] ELSE vls
       IN  IF f0.pc = "dispatch" /\ Get_Executor_Flag(f0, "TYPECHECK_ONLY")
           THEN /\ frames' = SetTop([f1 EXCEPT !.pc = "complete"])
                /\ UNCHANGED <<feeds, ds, thrown, vls, run>>
           ELSE \E sig \in Signals(f2) :
                  IF sig = "UNHANDLED" THEN Fail("not-handled")
                  ELSE \E manage \in IF f0.pc = "dispatch_phase"
                                        \/ f2.phase \in {"+", "*", "then"}
                                     THEN {FALSE} ELSE BOOLEAN,
                          catches \in IF sig = "CONTINUATION" THEN BOOLEAN
                                      ELSE {FALSE},
                          label \in IF sig = "THROWN" THEN Labels
                                    ELSE {NoThrow} :
                     \E touch \in Touches(sig, label),
                        phase \in IF sig \in {"REDO_UNCHECKED", "REDO_CHECKED"}
                                    THEN RedoPhases(f2.phase) ELSE {f2.phase} :
                     /\ vls' = [i \in 1..Len(held) |->
                                  IF \/ (i = f2.vl /\ manage)
                                     \/ (label.redo /\ i = label.bind)
                                  THEN [held[i] EXCEPT !.managed = TRUE]
                                  ELSE held[i]]
                     /\ ds' = ds
                     /\ AfterDispatch(Touch(f2, touch), sig, catches, label,
                                      phase)

\* The executor is entered with a throw in flight and DISPATCHER_CATCHES
\* set: the dispatcher gets to see the throw.  It may catch a throw that is
\* no REDO and return a value, or pass the throw on.
DispatchCatch ==
    /\ Running /\ THROWING
    /\ UNCHANGED notAct
    /\ Top.ex = "action" /\ Get_Executor_Flag(Top, "DISPATCHER_CATCHES")
    /\ LET f == [Clear_Executor_Flag(Top, "DISPATCHER_CATCHES") EXCEPT
                    !.sig = "THROWN"]
       IN  \E catch \in IF thrown.redo THEN {FALSE} ELSE BOOLEAN :
              /\ vls' = IF IS_NATIVE(f.phase)
                        THEN [vls EXCEPT ![f.vl].hold = TRUE] ELSE vls
              /\ IF catch
                 THEN /\ frames' = SetTop([f EXCEPT !.out = Nulled, !.sig = "NULL",
                                                    !.pc = "complete"])
                      /\ thrown' = NoThrow
                 ELSE /\ frames' = SetTop([f EXCEPT !.pc = "thrown"])
                      /\ thrown' = thrown
              /\ UNCHANGED <<feeds, ds, run>>

\* handle_thrown_maybe_redo: a REDO of this frame is caught and the frame
\* goes back to type checking; any other throw drops the action and the
\* data stack above the baseline, and goes on to the frame below.
HandleThrown ==
    /\ Running /\ THROWING
    /\ UNCHANGED notAct
    /\ Top.ex = "action" /\ ~Get_Executor_Flag(Top, "DISPATCHER_CATCHES")
    /\ IF Is_Redo_Of(Top, thrown)
       THEN /\ frames' = SetTop([Catch_Redo(Top, thrown) EXCEPT
                                   !.out = Cell("frame", 0)])
            /\ thrown' = NoThrow
            /\ UNCHANGED <<feeds, ds, vls, run>>
       ELSE LET d == Unwind_Thrown(Top, ds, vls)
            IN  /\ frames' = Pop
                /\ ds' = d.ds
                /\ vls' = [d.vls EXCEPT ![Top.vl].exit = "throw"]
                /\ run' = [run EXCEPT
                             !.last = ExitRec("throw", Top, d.f, Len(d.ds),
                                             Top.out),
                             !.st = IF Len(frames) = 1 THEN "thrown" ELSE @]
                /\ UNCHANGED <<feeds, thrown>>

\* dispatch_completed and skip_output_check: the action is dropped and OUT
\* goes to the frame below.
Complete ==
    /\ Running /\ ~THROWING
    /\ UNCHANGED notAct
    /\ Top.ex = "action" /\ Top.pc \in {"complete", "delegated"}
    /\ LET f == Clear_Executor_Flag(Top, "DELEGATE_CONTROL")
           d == Drop_Action(f, vls)
           out == IF Get_Executor_Flag(f, "MAYBE_STALE") THEN f.out
                  ELSE Clear_Stale_Flag(f.out)
       IN  IF GET_FEED_FLAG(TopFeed, "NEXT_ARG_FROM_OUT")
           THEN Fail("left-lookback")
           ELSE /\ frames' = Deliver(Pop, out, f.dest)
                /\ vls' = [d.vls EXCEPT ![f.vl].exit = "return"]
                /\ run' = [run EXCEPT
                             !.last = ExitRec("return", f, d.f, DSP, out)]
                /\ UNCHANGED <<feeds, ds, thrown>>

Next ==
    \/ EvalStart \/ EvalLookahead \/ EvalThrown
    \/ Fulfill \/ ArgFulfilled \/ Pickup \/ Typecheck
    \/ Dispatch \/ DispatchCatch \/ HandleThrown \/ Complete

Spec == InitAction /\ [][Next]_vars

(***************************************************************************)
(* Properties of the action executor                                       *)
(***************************************************************************)
ActionFrames == {i \in 1..Len(frames) : frames[i].ex = "action"}

SourceOfRun == feeds[1].arr

\* The argument of frame f for the parameter named sym.
ArgOf(f, sym) ==
    LET params == ACT_PARAMS(f.original)
    IN  f.args[CHOOSE i \in 1..Len(params) : params[i].sym = sym]

C2_RefinementOrder ==
    \A i \in ActionFrames :
        LET f == frames[i]
            call == SourceOfRun[1]
        IN  (/\ f.original \in {"foo", "bar"}
             /\ f.pc \in {"typecheck", "dispatch", "complete"}
             /\ Len(call.refs) = 2 /\ "d" \notin {call.refs[1], call.refs[2]}
             /\ SourceOfRun[2] = IntTok(10))
              => /\ ArgOf(f, "a") = [IntCell(10) EXCEPT !.uneval = TRUE]
                 /\ ArgOf(f, call.refs[1]) = [IntCell(20) EXCEPT !.uneval = TRUE]
                 /\ ArgOf(f, call.refs[2]) = [IntCell(30) EXCEPT !.uneval = TRUE]

\* `foo:c:b 10 20 30` is about to run foo with c = 20 and b = 30.
C2_Witness ==
    /\ frames # <<>> /\ Top.ex = "action" /\ Top.original = "foo"
    /\ Top.pc = "dispatch"
    /\ SourceOfRun[1].refs = <<"c", "b">>
    /\ ArgOf(Top, "c").v = 20 /\ ArgOf(Top, "b").v = 30

\* Does the type-check pass accept every argument of the frame's phase?
ArgsAccepted(f) ==
    \A i \in 1..Len(f.args) :
        TypecheckError(ACT_PARAMS(f.phase)[i], f.args[i]) = ""

\* C3: a frame is at the point of invoking its dispatcher anew only after a
\* type-check pass has accepted the arguments of its phase, unless the
\* dispatcher itself sent it there with redo-unchecked; a redo-checked
\* signal puts the frame in the TYPECHECKING state, and it gets to the
\* dispatcher only through a new pass.
C3_TypecheckBeforeDispatch ==
    \A i \in ActionFrames :
        LET f == frames[i]
        IN  /\ f.pc = "dispatch" =>
                 \/ f.sig = "REDO_UNCHECKED"
                 \/ f.tc /\ ArgsAccepted(f) /\ f.state = "TYPECHECKING"
            /\ (f.sig = "REDO_CHECKED" /\ ~f.tc) =>
                 f.pc = "typecheck" /\ f.state = "TYPECHECKING"

\* A redo-checked frame has passed the type check again and is about to
\* dispatch its new phase.
C3_Witness ==
    /\ frames # <<>> /\ Top.ex = "action" /\ Top.pc = "dispatch"
    /\ Top.sig = "REDO_CHECKED" /\ Top.tc /\ Top.phase # Top.original

C7_HoldReleasedOnExit ==
    \A i \in 1..Len(vls) :
        vls[i].exit \in {"return", "throw"} => ~vls[i].hold

\* C9: when a throw has left an action frame uncaught, the data stack was
\* dropped to the frame's baseline, the frame's executor is gone and its
\* varlist is released: detached from the frame if managed, else reset for
\* reuse (no HOLD, not invoked).
C9_ThrowUnwinds ==
    run.last.how = "throw" =>
        /\ run.last.dsp = run.last.base
        /\ run.last.ex = "none"
        /\ \/ run.last.detached /\ vls[run.last.vl].managed
           \/ /\ ~vls[run.last.vl].managed
              /\ ~vls[run.last.vl].hold /\ ~vls[run.last.vl].invoked

\* A throw out of `act 1` has left the frame of foo while the refinements of
\* `foo:c:b` were still pushed; they are gone.
C9_Witness ==
    /\ run.last.how = "throw" /\ run.last.vl = 1
    /\ SourceOfRun[1].t = "path"
    /\ ds = <<>> /\ run.st = "thrown"

\* C10: for every action frame in the FULFILLING_ARGS or DOING_PICKUPS
\* state, key is at or before key_tail and the data stack holds at least
\* baseline entries.
C10_FulfillBounds ==
    \A i \in ActionFrames :
        frames[i].state \in {"FULFILLING_ARGS", "DOING_PICKUPS"} =>
            /\ frames[i].key <= frames[i].key_tail
            /\ DSP >= frames[i].baseline

\* A pickup has dropped one pushed word and another is still on the stack.
C10_Witness ==
    /\ frames # <<>> /\ Top.ex = "action"
    /\ Top.state = "DOING_PICKUPS" /\ Top.pc = "pickup"
    /\ Top.key < Top.key_tail /\ DSP > Top.baseline

\* The last exit of an action frame was a return (no throw, no failure).
Returned == run.last.how = "return"

\* C11 (as stated): whenever the action executor returns without a throw or
\* failure, the fulfil-only and typecheck-only paths included, OUT is
\* readable or stale, never fresh.
C11_OutNeverFresh ==
    Returned => ~(Is_Fresh(run.last.out) /\ ~Is_Stale(run.last.out))

\* C11 (amended): when the action executor returns without a throw or
\* failure, OUT is readable if the dispatcher gave a value or the call was
\* typecheck-only.  OUT is fresh after a fulfil-only call, which never
\* touches it, and it can be fresh after a void signal only if it was fresh
\* before the call (the stale mark is cleared unless the frame is
\* MAYBE_STALE) and after a delegation only if the delegate left it so.
C11_OutAfterReturn ==
    Returned =>
        LET r == run.last
            fresh == Is_Fresh(r.out) /\ ~Is_Stale(r.out)
        IN  /\ "FULFILL_ONLY" \in r.flags =>
                 r.sig = "none" /\ r.out = r.prior /\ fresh
            /\ "TYPECHECK_ONLY" \in r.flags => r.out = Nulled
            /\ r.sig \in {"OUT", "NULL"} => ~Is_Fresh(r.out) /\ ~Is_Stale(r.out)
            /\ fresh => \/ "FULFILL_ONLY" \in r.flags
                        \/ r.sig = "VOID" /\ Is_Fresh(r.prior)
                              /\ "MAYBE_STALE" \notin r.flags
                        \/ r.sig = "DELEGATION"
            /\ (r.sig = "VOID" /\ "MAYBE_STALE" \in r.flags) => Is_Stale(r.out)

\* A fulfil-only call of foo has returned with its arguments gathered and
\* OUT fresh.
C11_Witness ==
    /\ Returned /\ "FULFILL_ONLY" \in run.last.flags
    /\ Is_Fresh(run.last.out) /\ ~Is_Stale(run.last.out)
    /\ run.st = "done"

\* The refinement words of a path call that the fulfillment loop cannot
\* match: a word that names no refinement of the action, or a second
\* occurrence of a word.
Unmatched(call) ==
    \E i \in 1..Len(call.refs) :
        \/ \A k \in 1..Len(ACT_PARAMS(call.w)) :
              ~(ACT_PARAMS(call.w)[k].refine
                  /\ ACT_PARAMS(call.w)[k].sym = call.refs[i])
        \/ \E j \in 1..(i - 1) : call.refs[j] = call.refs[i]

\* C12: a call whose path pushes a refinement word that names no parameter
\* or repeats one fails with bad-parameter: its frame never gets past
\* fulfillment, so no type check and no dispatcher runs; and a frame that
\* does get past fulfillment has no pushed word left above its baseline.
C12_UnmatchedRefinementFails ==
    /\ (SourceOfRun[1].t = "path" /\ Unmatched(SourceOfRun[1])) =>
         /\ \A i \in ActionFrames :
              /\ frames[i].pc \in {"fulfill", "pickup", "arg_wait", "arg_done"}
              /\ frames[i].sig = "none" /\ ~frames[i].tc
         /\ run.last.how = "none"
         /\ run.st # "running" => run.st = "failed" /\ run.err = "bad-parameter"
    /\ \A i \in ActionFrames :
         (i = Len(frames) /\ frames[i].pc \in {"typecheck", "dispatch"}) =>
            DSP = frames[i].baseline

\* `foo:b:b 10 20 30` has failed with bad-parameter.
C12_Witness ==
    /\ SourceOfRun[1].t = "path" /\ SourceOfRun[1].refs = <<"b", "b">>
    /\ run.st = "failed" /\ run.err = "bad-parameter"

\* An enfix frame is about to take the value in OUT for a hard-quoted first
\* parameter.
HardLeftPending ==
    /\ Running /\ ~THROWING /\ Top.ex = "action" /\ Top.pc = "fulfill"
    /\ Top.key = 1 /\ Top.key # Top.key_tail
    /\ Get_Executor_Flag(Top, "RUNNING_ENFIX")
    /\ GET_FEED_FLAG(TopFeed, "NEXT_ARG_FROM_OUT")
    /\ ACT_PARAMS(Top.original)[1].class = "hard"
    /\ ~Is_Fresh(Top.out) /\ ~Is_Stale(Top.out)

\* C13: when an enfix action takes the value in OUT for a hard-quoted first
\* parameter, a value that does not carry UNEVALUATED makes the call fail
\* with evaluative-quote; a literal one is copied into the argument, which
\* carries UNEVALUATED.
C13_HardQuoteLeft ==
    [][HardLeftPending =>
         IF ~Top.out.uneval
         THEN run'.st = "failed" /\ run'.err = "evaluative-quote"
         ELSE /\ run'.st = "running" /\ Len(frames') = Len(frames)
              /\ frames'[Len(frames)].args[1].k = Top.out.k
              /\ frames'[Len(frames)].args[1].v = Top.out.v
              /\ frames'[Len(frames)].args[1].uneval]_vars

\* `1 + 2 lit` has failed: lit was given the evaluated 3.
C13_Witness ==
    /\ SourceOfRun[Len(SourceOfRun)] = WordTok("lit")
    /\ run.st = "failed" /\ run.err = "evaluative-quote"

\* The next step of the top frame gathers an argument from the callsite:
\* the parameter at KEY in the fulfillment loop, or the parameter of the
\* pushed refinement on top of the stack in the pickups.
CallsiteGatherPending ==
    /\ Running /\ ~THROWING /\ Top.ex = "action"
    /\ ~GET_FEED_FLAG(TopFeed, "NEXT_ARG_FROM_OUT")
    /\ \/ /\ Top.pc = "fulfill" /\ Top.key # Top.key_tail
          /\ LET param == ACT_PARAMS(Top.original)[Top.key]
             IN  /\ ~Is_Specialized(param) /\ ~param.refine
                 /\ param.class # "return"
                 /\ OrderedMatch(Top, ds) = 0
       \/ /\ \/ Top.pc = "pickup"
             \/ /\ Top.pc = "fulfill" /\ Top.key = Top.key_tail
                /\ Len(ds) # Top.baseline
          /\ ds[Len(ds)].idx # 0
          /\ ~ACT_PARAMS(Top.original)[ds[Len(ds)].idx].empty

\* C33: if an action must gather a further argument from the callsite
\* while DEFERRING_ENFIX is still set on its feed, the call fails with
\* ambiguous-infix and the feed is left as it is.
C33_AmbiguousInfix ==
    [][CallsiteGatherPending /\ GET_FEED_FLAG(TopFeed, "DEFERRING_ENFIX")
         => /\ run'.st = "failed" /\ run'.err = "ambiguous-infix"
            /\ feeds' = feeds]_vars

\* `bar/c 1 then 2 3` has failed: the 1 was taken for A with THEN deferred,
\* and the argument of /C was wanted next; the feed still stands at THEN.
C33_Witness ==
    /\ SourceOfRun = <<PathTok("bar", <<"c">>), IntTok(1), WordTok("then"),
                       IntTok(2), IntTok(3)>>
    /\ run.st = "failed" /\ run.err = "ambiguous-infix"
    /\ feeds[1].idx = 3
    /\ GET_FEED_FLAG(feeds[1], "DEFERRING_ENFIX")

\* C14: when the dispatcher's signal was void, the frame returns with OUT
\* holding the cell it held when the action was pushed, and (the caller not
\* having asked to keep the stale mark) the cell is not stale.
C14_VoidKeepsPriorOut ==
    (Returned /\ run.last.sig = "VOID" /\ "MAYBE_STALE" \notin run.last.flags)
        => /\ ~Is_Stale(run.last.out)
           /\ [run.last.out EXCEPT !.stale = FALSE]
                 = [run.last.prior EXCEPT !.stale = FALSE]

(***************************************************************************)
(* PART 2b -- PROTECT, UNPROTECT and FREEZE with every kind of argument    *)
(* and refinement, on the heaps of part 2.                                 *)
(***************************************************************************)
MaxArgOps == 2

InitProtectArgs ==
    /\ heap \in InitHeaps
    /\ info = [n \in Nodes |-> {}]
    /\ perr = "none"
    /\ pop = [op |-> "init", n |-> "a", m |-> ""]
    /\ pops = 0
    /\ varbits = [j \in 1..1 |-> {}]
    /\ SerIdle
    /\ ActIdle
    /\ StubIdle
    /\ PathIdle
    /\ RestIdle

\* PROTECT with /deep, /hide and a word, a /words or /values block, or
\* another value
ProtectArg ==
    /\ pops < MaxArgOps
    /\ \E arg \in ProtArgs, deep \in BOOLEAN, hide \in BOOLEAN :
          LET r == Protect_Unprotect_Native(info, varbits, arg,
                                            NativeFlags(TRUE, deep, hide))
          IN  /\ info' = r.info
              /\ varbits' = r.varbits
              /\ perr' = r.err
              /\ pop' = [op |-> "protect", n |-> ArgNode(arg), m |-> arg.m]
    /\ pops' = pops + 1
    /\ UNCHANGED <<heap, notProt>>

\* UNPROTECT with /deep, /hide and a word, a /words or /values block, or
\* another value; /hide is refused before anything is done
UnprotectArg ==
    /\ pops < MaxArgOps
    /\ \E arg \in ProtArgs, deep \in BOOLEAN, hide \in BOOLEAN :
          LET r == IF hide
                   THEN [info |-> info, varbits |-> varbits,
                         err |-> "cannot-unhide"]
                   ELSE Protect_Unprotect_Native(info, varbits, arg,
                                            NativeFlags(FALSE, deep, FALSE))
          IN  /\ info' = r.info
              /\ varbits' = r.varbits
              /\ perr' = r.err
              /\ pop' = [op |-> "unprotect", n |-> ArgNode(arg),
                         m |-> arg.m]
    /\ pops' = pops + 1
    /\ UNCHANGED <<heap, notProt>>

\* FREEZE value, FREEZE/DEEP value
FreezeArg ==
    /\ pops < MaxArgOps
    /\ \E v \in Targets, deep \in BOOLEAN :
          LET r == Force_Value_Frozen_Core(info, v, deep, FALSE)
          IN  /\ info' = r.info
              /\ perr' = r.err
              /\ pop' = [op |-> "freeze", n |-> v.s, m |-> "plain"]
    /\ pops' = pops + 1
    /\ UNCHANGED <<heap, varbits, notProt>>

NextProtectArgs == ProtectArg \/ UnprotectArg \/ FreezeArg

SpecProtectArgs == InitProtectArgs /\ [][NextProtectArgs]_vars

(***************************************************************************)
(* PART 4 -- series nodes: manual and managed tracking, inaccessible       *)
(* nodes (sys-series.h, sys-context.h)                                     *)
(*                                                                         *)
(* A node is [live, managed, inacc, dynamic, flavor, ctype]: flavor is     *)
(* "binary" or "varlist", ctype the type of the context a varlist belongs  *)
(* to ("frame", "object") or "" for a binary.                              *)
(***************************************************************************)
MaxStubs == 3
MaxStubOps == 4

Flavors == {[flavor |-> "binary", ctype |-> ""],
            [flavor |-> "varlist", ctype |-> "frame"],
            [flavor |-> "varlist", ctype |-> "object"]}

IS_SERIES_MANAGED(s) == s.managed

\* The position of node n on a list of nodes, or 0.
RECURSIVE Find_Manual(_, _, _)
Find_Manual(list, n, i) ==
    IF i > Len(list) THEN 0
    ELSE IF list[i] = n THEN i
    ELSE Find_Manual(list, n, i + 1)

OnManuals(n) == Find_Manual(GC_Manuals, n, 1) # 0

\* The manuals list without its first entry for node n.
Remove_Manual(list, n) ==
    LET i == Find_Manual(list, n, 1)
    IN  IF i = 0 THEN list
        ELSE SubSeq(list, 1, i - 1) \o SubSeq(list, i + 1, Len(list))

\* A node that records every series on the manuals list, managed or not.
Make_Series_Node_AlwaysManual(st, manuals, fl, managed) ==
    [stubs |-> Append(st, [live |-> TRUE, managed |-> managed,
                           inacc |-> FALSE, dynamic |-> FALSE,
                           flavor |-> fl.flavor, ctype |-> fl.ctype]),
     manuals |-> Append(manuals, Len(st) + 1)]

\* Make_Series_Node: a node of length 0 without a dynamic allocation; when
\* the flags lack NODE_FLAG_MANAGED the node is appended to GC_Manuals.
Make_Series_Node(st, manuals, fl, managed) ==
    [stubs |-> Append(st, [live |-> TRUE, managed |-> managed,
                           inacc |-> FALSE, dynamic |-> FALSE,
                           flavor |-> fl.flavor, ctype |-> fl.ctype]),
     manuals |-> IF ~managed THEN Append(manuals, Len(st) + 1)
                 ELSE manuals]

\* Alloc_Stub and Prep_Stub: a new node with the given flags.
Alloc_Stub(st, manuals, fl, managed) ==
    Make_Series_Node(st, manuals, fl, managed)

\* Did_Series_Data_Alloc, when the capacity does not fit the node.
Did_Series_Data_Alloc(s) == [s EXCEPT !.dynamic = TRUE]

\* Manage_Series: the node leaves the manuals list and gets the flag.
Manage_Series(st, manuals, n) ==
    [stubs |-> [st EXCEPT ![n].managed = TRUE],
     manuals |-> Remove_Manual(manuals, n)]

\* Free_Unmanaged_Series: the node leaves the manuals list and is freed.
Free_Unmanaged_Series(st, manuals, n) ==
    [stubs |-> [st EXCEPT ![n].live = FALSE, ![n].dynamic = FALSE],
     manuals |-> Remove_Manual(manuals, n)]

\* GC_Kill_Series: the payload is released, the node marked inaccessible
\* and returned to the pool.
GC_Kill_Series(st, n) ==
    [st EXCEPT ![n].live = FALSE, ![n].inacc = TRUE, ![n].dynamic = FALSE]

\* Steal_Context_Vars: the variables move to a new node `copy`; the old
\* varlist becomes an inaccessible stub, not dynamic, that holds only the
\* archetype.
Steal_Context_Vars(st, manuals, c) ==
    LET a == Alloc_Stub(st, manuals,
                        [flavor |-> "varlist", ctype |-> st[c].ctype], FALSE)
        copy == Len(a.stubs)
    IN  [stubs |-> [a.stubs EXCEPT ![copy].dynamic = st[c].dynamic,
                                   ![c].inacc = TRUE,
                                   ![c].dynamic = FALSE],
         manuals |-> a.manuals]

\* SER_AT_RAW (and SER_DATA_RAW, SER_HEAD, SER_TAIL, SER_LAST built on it)
SER_AT_RAW(s) ==
    IF s.inacc THEN "series-data-freed" ELSE "data"

\* CTX_ARCHETYPE: for a freed stub, the cell held in the node itself
CTX_ARCHETYPE(s) ==
    IF s.inacc THEN "stub-archetype" ELSE "archetype"

CTX_TYPE(s) == s.ctype

\* The extraction of a context without FAIL_IF_INACCESSIBLE_CTX.
VAL_CONTEXT_Unchecked(s) == "context"

\* FAIL_IF_INACCESSIBLE_CTX, then VAL_CONTEXT gives the context
VAL_CONTEXT(s) ==
    IF s.inacc
    THEN IF CTX_TYPE(s) = "frame" THEN "expired-frame"
         ELSE "series-data-freed"
    ELSE "context"

\* CTX_VAR: asserts the varlist is accessible, then indexes the dynamic
\* data.  On an inaccessible stub a checked build stops at the assert and
\* an unchecked build indexes whatever the node holds.
CTX_VAR(s) ==
    IF s.inacc THEN {"assert-failed", "garbage"} ELSE {"var"}

Live == {n \in 1..Len(stubs) : stubs[n].live}
Varlists == {n \in Live : stubs[n].flavor = "varlist"}

InitStubs ==
    /\ stubs = <<>>
    /\ GC_Manuals = <<>>
    /\ access = [op |-> "init", n |-> 0, res |-> ""]
    /\ stubOps = 0
    /\ SerIdle
    /\ ProtIdle
    /\ ActIdle
    /\ PathIdle
    /\ RestIdle

StubStep(op, n, res) ==
    /\ access' = [op |-> op, n |-> n, res |-> res]
    /\ stubOps' = stubOps + 1
    /\ UNCHANGED notStub

\* Make_Series_Core, with or without a dynamic allocation
MakeSeries ==
    /\ stubOps < MaxStubOps /\ Len(stubs) < MaxStubs
    /\ \E fl \in Flavors, managed \in BOOLEAN, dyn \in BOOLEAN :
          LET m == Make_Series_Node(stubs, GC_Manuals, fl, managed)
              n == Len(m.stubs)
          IN  /\ stubs' = IF dyn
                          THEN [m.stubs EXCEPT
                                  ![n] = Did_Series_Data_Alloc(@)]
                          ELSE m.stubs
              /\ GC_Manuals' = m.manuals
              /\ StubStep(IF managed THEN "make-managed" ELSE "make", n, "")

ManageSeries ==
    /\ stubOps < MaxStubOps
    /\ \E n \in Live :
          /\ ~IS_SERIES_MANAGED(stubs[n])
          /\ LET m == Manage_Series(stubs, GC_Manuals, n)
             IN  stubs' = m.stubs /\ GC_Manuals' = m.manuals
          /\ StubStep("manage", n, "")

FreeUnmanaged ==
    /\ stubOps < MaxStubOps
    /\ \E n \in Live :
          IF IS_SERIES_MANAGED(stubs[n])
          THEN /\ UNCHANGED <<stubs, GC_Manuals>>
               /\ StubStep("free", n, "free-managed-series")
          ELSE /\ LET m == Free_Unmanaged_Series(stubs, GC_Manuals, n)
                  IN  stubs' = m.stubs /\ GC_Manuals' = m.manuals
               /\ StubStep("free", n, "")

GCKill ==
    /\ stubOps < MaxStubOps
    /\ \E n \in Live :
          /\ IS_SERIES_MANAGED(stubs[n])
          /\ stubs' = GC_Kill_Series(stubs, n)
          /\ UNCHANGED GC_Manuals
          /\ StubStep("kill", n, "")

StealVars ==
    /\ stubOps < MaxStubOps /\ Len(stubs) < MaxStubs
    /\ \E c \in Varlists :
          /\ ~stubs[c].inacc
          /\ LET m == Steal_Context_Vars(stubs, GC_Manuals, c)
             IN  stubs' = m.stubs /\ GC_Manuals' = m.manuals
          /\ StubStep("steal", c, "")

ReadRaw ==
    /\ stubOps < MaxStubOps
    /\ \E n \in Live :
          /\ UNCHANGED <<stubs, GC_Manuals>>
          /\ StubStep("SER_AT_RAW", n, SER_AT_RAW(stubs[n]))

ReadContext ==
    /\ stubOps < MaxStubOps
    /\ \E n \in Varlists :
          /\ UNCHANGED <<stubs, GC_Manuals>>
          /\ StubStep("VAL_CONTEXT", n, VAL_CONTEXT(stubs[n]))

ReadArchetype ==
    /\ stubOps < MaxStubOps
    /\ \E n \in Varlists :
          /\ UNCHANGED <<stubs, GC_Manuals>>
          /\ StubStep("CTX_ARCHETYPE", n, CTX_ARCHETYPE(stubs[n]))

ReadVar ==
    /\ stubOps < MaxStubOps
    /\ \E n \in Varlists :
          /\ UNCHANGED <<stubs, GC_Manuals>>
          /\ \E res \in CTX_VAR(stubs[n]) : StubStep("CTX_VAR", n, res)

NextStubs ==
    \/ MakeSeries \/ ManageSeries \/ FreeUnmanaged \/ GCKill \/ StealVars
    \/ ReadRaw \/ ReadContext \/ ReadArchetype \/ ReadVar

SpecStubs == InitStubs /\ [][NextStubs]_vars

\* C15: every live series is either recorded on the manuals list (once) or
\* flagged managed, never both and never neither; the node just made is on
\* the list exactly when it was made without the managed flag.
C15_ManualXorManaged ==
    /\ \A n \in Live : OnManuals(n) # IS_SERIES_MANAGED(stubs[n])
    /\ \A i, j \in 1..Len(GC_Manuals) :
          GC_Manuals[i] = GC_Manuals[j] => i = j
    /\ access.op = "make" => OnManuals(access.n)
    /\ access.op = "make-managed" => ~OnManuals(access.n)

\* A series made managed and a series made manual are both live, and a third
\* was made manual and then managed.
C15_Witness ==
    /\ access.op = "manage"
    /\ \E n \in Live : OnManuals(n)
    /\ \E n \in Live : n # access.n /\ IS_SERIES_MANAGED(stubs[n])

ReadOps == {"SER_AT_RAW", "VAL_CONTEXT", "CTX_ARCHETYPE", "CTX_VAR"}
ReadOfInaccessible == access.op \in ReadOps /\ stubs[access.n].inacc

\* C16: a read of an inaccessible series raises expired-frame when the
\* series is the varlist of a frame and series-data-freed otherwise.
C16_EveryReadRaises ==
    ReadOfInaccessible =>
        access.res = IF stubs[access.n].ctype = "frame"
                     THEN "expired-frame" ELSE "series-data-freed"

\* C16 (amended): on an inaccessible series SER_AT_RAW raises
\* series-data-freed whatever the series is, and VAL_CONTEXT raises
\* expired-frame for the varlist of a frame and series-data-freed for that
\* of another context; CTX_ARCHETYPE raises nothing and gives the cell kept
\* in the stub, and CTX_VAR raises neither error.
C16_CheckedReadsRaise ==
    ReadOfInaccessible =>
        CASE access.op = "SER_AT_RAW" -> access.res = "series-data-freed"
          [] access.op = "VAL_CONTEXT" ->
                access.res = IF stubs[access.n].ctype = "frame"
                             THEN "expired-frame" ELSE "series-data-freed"
          [] access.op = "CTX_ARCHETYPE" -> access.res = "stub-archetype"
          [] OTHER -> access.res \in {"assert-failed", "garbage"}

\* The varlist of a frame was stolen and then asked for through VAL_CONTEXT.
C16_Witness ==
    /\ access.op = "VAL_CONTEXT" /\ stubs[access.n].inacc
    /\ stubs[access.n].ctype = "frame"
    /\ access.res = "expired-frame"

(***************************************************************************)
(* Properties of PROTECT, UNPROTECT and FREEZE                             *)
(***************************************************************************)

\* C17: once a PROTECT, UNPROTECT or FREEZE has returned, whatever its
\* argument (word, /words block, /values block, other value) and
\* refinements, no series carries the black mark of the deep walk.
C17_NoSeriesLeftBlack ==
    \A n \in Nodes : "BLACK" \notin info[n]

\* A PROTECT/DEEP/WORDS has returned whose walk went from the variable's
\* value into a second series.
C17_Witness ==
    /\ pop.op = "protect" /\ pop.m = "words" /\ pops = 1
    /\ "PROTECTED" \in varbits[1]
    /\ Cardinality({n \in Nodes : "PROTECTED" \in info[n]}) >= 2

FrozenBits == {"FROZEN_SHALLOW", "FROZEN_DEEP"}

\* C18: no PROTECT, UNPROTECT or FREEZE, whatever its argument and
\* refinements, clears a frozen bit that a series carries.
C18_FrozenIsPermanent ==
    [][\A n \in Nodes : (info[n] \cap FrozenBits) \subseteq info'[n]]_vars

\* After a freeze that froze two series, an UNPROTECT was applied to one of
\* them and returned without error; the series is still frozen.
C18_Witness ==
    /\ pop.op = "unprotect" /\ perr = "none" /\ pops = 2
    /\ "FROZEN_SHALLOW" \in info[pop.n]
    /\ \E m \in Nodes \ {pop.n} : "FROZEN_SHALLOW" \in info[m]

(***************************************************************************)
(* PART 5 -- local paths to FILE!: To_REBOL_Path (mod-filesystem.c)        *)
(*                                                                         *)
(* A path is a sequence of characters; the mold buffer `mo` is the         *)
(* sequence appended since Push_Mold.                                      *)
(***************************************************************************)
MaxPathLen == 4

Chars == {"c", ":", "/", "\\"}
IsSep(c) == c = "\\" \/ c = "/"

LocalPaths == UNION {[1..k -> Chars] : k \in 0..MaxPathLen}

\* Last_In_Mold_Is_Slash: FALSE when nothing was added yet
Last_In_Mold_Is_Slash(mo) ==
    IF Len(mo) = 0 THEN FALSE ELSE mo[Len(mo)] = "/"

PathFail == [err |-> "no prior : or / allowed for vol:dir/file format",
             out |-> <<>>]

\* The end of To_REBOL_Path: a directory gets its closing slash.
Pop_Molded_Path(mo, dir) ==
    [err |-> "",
     out |-> IF dir /\ ~Last_In_Mold_Is_Slash(mo) THEN Append(mo, "/") ELSE mo]

\* The loop of To_REBOL_Path after i characters of s were read; `restart`
\* runs it again from i = 0 with the mold cut back to a single slash.
RECURSIVE To_REBOL_Loop(_, _, _, _, _, _, _)
To_REBOL_Loop(s, dir, i, mo, lead_slash, saw_colon, saw_slash) ==
    IF i >= Len(s) THEN Pop_Molded_Path(mo, dir)
    ELSE
      LET c == s[i + 1]
          i1 == i + 1
      IN
        IF c = ":"
        THEN IF saw_colon \/ saw_slash THEN PathFail
             ELSE IF ~lead_slash
             THEN To_REBOL_Loop(s, dir, 0, <<"/">>, TRUE, saw_colon, saw_slash)
             ELSE LET mo2 == Append(mo, "/")
                  IN  IF i1 < Len(s)
                      THEN LET c2 == s[i1 + 1]
                               i2 == i1 + 1
                           IN  IF IsSep(c2)
                               THEN IF i2 >= Len(s)
                                    THEN Pop_Molded_Path(mo2, dir)
                                    ELSE To_REBOL_Loop(s, dir, i2 + 1,
                                             Append(mo2, s[i2 + 1]),
                                             lead_slash, TRUE, saw_slash)
                               ELSE To_REBOL_Loop(s, dir, i2,
                                        Append(mo2, c2),
                                        lead_slash, TRUE, saw_slash)
                      ELSE To_REBOL_Loop(s, dir, i1, Append(mo2, c),
                                         lead_slash, TRUE, saw_slash)
        ELSE IF IsSep(c)
        THEN IF Last_In_Mold_Is_Slash(mo)
             THEN To_REBOL_Loop(s, dir, i1, mo,
                                lead_slash, saw_colon, saw_slash)
             ELSE To_REBOL_Loop(s, dir, i1, Append(mo, "/"),
                                lead_slash, saw_colon, TRUE)
        ELSE To_REBOL_Loop(s, dir, i1, Append(mo, c),
                           lead_slash, saw_colon, saw_slash)

\* To_REBOL_Path(string, flags): [err, out]
To_REBOL_Path(s, dir) == To_REBOL_Loop(s, dir, 0, <<>>, FALSE, FALSE, FALSE)

NUL == ""
FileChars == {"c", ".", "/", ":"}
FilePaths == UNION {[1..k -> FileChars] : k \in 0..MaxPathLen}

\* The values Get_Current_Dir_Value can give: directories in FILE! form.
CurDirs == {<<"/", "c", "/">>, <<"/", "c", "/", "c", "/">>}

\* The character NEXT_CHR leaves in c when i characters are behind it: the
\* terminator once the text is used up.
ChrAt(s, i) == IF i < Len(s) THEN s[i + 1] ELSE NUL

\* The backward scan of the `..` case: the mold is cut before its last
\* segment (the closing separator is added back by the caller).
RECURSIVE Seek_Back(_, _)
Seek_Back(mo, n) ==
    IF n > 0 /\ mo[n + 1] # "/" THEN Seek_Back(mo, n - 1) ELSE n

Trim_Segment(mo) ==
    IF Len(mo) > 0
    THEN LET n == Len(mo) - 1
         IN  SubSeq(mo, 1, IF n > 0 THEN Seek_Back(mo, n - 1) ELSE n)
    ELSE mo

\* The last BACK_CHR of the backward scan steps to the character before
\* the one the mold is cut at, and reads it: its position, counted from the
\* start of this conversion's output (mo->base.index), or `low` if that is
\* lower.
Trim_Reads(mo, low) ==
    IF Len(mo) > 0 /\ Len(Trim_Segment(mo)) - 1 < low
    THEN Len(Trim_Segment(mo)) - 1
    ELSE low

RECURSIVE Segment_Prescan(_, _, _, _, _)
RECURSIVE Segment_Loop(_, _, _, _, _)

\* The copying loop at `segment_loop`, c the character at i: the mold, and
\* the lowest position read so far when segments were trimmed
Segment_Loop(s, full, i, mo, low) ==
    IF i >= Len(s) THEN [mo |-> mo, low |-> low]
    ELSE IF ChrAt(s, i) # "/"
    THEN Segment_Loop(s, full, i + 1, Append(mo, ChrAt(s, i)), low)
    ELSE IF Len(mo) > 0 /\ mo[Len(mo)] = "/"
    THEN Segment_Loop(s, full, i + 1, mo, low)
    ELSE Segment_Prescan(s, full, i + 1, Append(mo, "/"), low)

\* The outer loop of Mold_File_To_Local: with REB_FILETOLOCAL_FULL a
\* segment that starts with `.` is looked at before it is copied.
Segment_Prescan(s, full, i, mo, low) ==
    IF i >= Len(s) THEN [mo |-> mo, low |-> low]
    ELSE IF full /\ ChrAt(s, i) = "."
    THEN LET c1 == ChrAt(s, i + 1)
             c2 == ChrAt(s, i + 2)
         IN  IF c1 = NUL THEN [mo |-> mo, low |-> low]
             ELSE IF c1 = "/" THEN Segment_Prescan(s, full, i + 2, mo, low)
             ELSE IF c1 # "."
             THEN Segment_Loop(s, full, i + 1, Append(mo, "."), low)
             ELSE IF c2 = NUL \/ c2 = "/"
             THEN LET mo2 == Append(Trim_Segment(mo), "/")
                      low2 == Trim_Reads(mo, low)
                  IN  IF i + 2 = Len(s) THEN [mo |-> mo2, low |-> low2]
                      ELSE Segment_Prescan(s, full, i + 3, mo2, low2)
             ELSE Segment_Loop(s, full, i + 2, mo \o <<".", ".">>, low)
    ELSE Segment_Loop(s, full, i, mo, low)

Mold_File_To_Local_AlwaysFull(file, full, nts, cwd) ==
    LET mo == IF ChrAt(file, 0) = "/"
              THEN Segment_Prescan(file, full, 1, <<"/">>, 0).mo
              ELSE Segment_Prescan(file, full, 0, cwd, 0).mo
    IN  IF nts /\ Len(mo) > 0 /\ mo[Len(mo)] = "/"
        THEN SubSeq(mo, 1, Len(mo) - 1)
        ELSE mo

RECURSIVE Mold_File_To_Local(_, _, _, _)

\* The segments of `file` molded after the root separator or the current
\* directory: the mold and the lowest position read, 0 standing for the
\* start of the output of this conversion
Mold_Segments(file, full, cwd) ==
    IF ChrAt(file, 0) = "/"
    THEN Segment_Prescan(file, full, 1, <<"/">>, 0)
    ELSE IF full
    THEN Segment_Prescan(file, full, 0,
                         Mold_File_To_Local(cwd, FALSE, FALSE, cwd), 0)
    ELSE Segment_Prescan(file, full, 0, <<>>, 0)

\* Mold_File_To_Local where OS_DIR_SEP is `/` (no TO_WINDOWS): what is
\* appended to the mold for `file`; cwd is what Get_Current_Dir_Value gives.
Mold_File_To_Local(file, full, nts, cwd) ==
    LET mo == Mold_Segments(file, full, cwd).mo
    IN  IF nts /\ Len(mo) > 0 /\ mo[Len(mo)] = "/"
        THEN SubSeq(mo, 1, Len(mo) - 1)
        ELSE mo

To_Local_Path(file, full, nts, cwd) == Mold_File_To_Local(file, full, nts, cwd)

InitPath ==
    /\ \E cwd \in CurDirs :
          \/ \E s \in LocalPaths, dir \in BOOLEAN :
                path = [kind |-> "local", in |-> s, dir |-> dir,
                        full |-> FALSE, nts |-> FALSE, cwd |-> cwd,
                        st |-> "input", out |-> <<>>, err |-> "",
                        back |-> <<>>, low |-> 0]
          \/ \E s \in FilePaths, full \in BOOLEAN, nts \in BOOLEAN :
                path = [kind |-> "file", in |-> s, dir |-> FALSE,
                        full |-> full, nts |-> nts, cwd |-> cwd,
                        st |-> "input", out |-> <<>>, err |-> "",
                        back |-> <<>>, low |-> 0]
    /\ SerIdle
    /\ ProtIdle
    /\ ActIdle
    /\ StubIdle
    /\ RestIdle

\* LOCAL-TO-FILE text, LOCAL-TO-FILE/DIR text
LocalToFile ==
    /\ path.st = "input" /\ path.kind = "local"
    /\ LET r == To_REBOL_Path(path.in, path.dir)
       IN  path' = [path EXCEPT !.st = "done", !.out = r.out, !.err = r.err]
    /\ UNCHANGED notPath

\* FILE-TO-LOCAL file, with /full and /no-tail-slash
FileToLocal ==
    /\ path.st = "input" /\ path.kind = "file"
    /\ path' = [path EXCEPT !.st = "local",
                  !.out = To_Local_Path(path.in, path.full, path.nts,
                                        path.cwd),
                  !.low = Mold_Segments(path.in, path.full, path.cwd).low]
    /\ UNCHANGED notPath

\* LOCAL-TO-FILE of the text FILE-TO-LOCAL gave
LocalBackToFile ==
    /\ path.st = "local"
    /\ LET r == To_REBOL_Path(path.out, FALSE)
       IN  path' = [path EXCEPT !.st = "back", !.back = r.out, !.err = r.err]
    /\ UNCHANGED notPath

NextPath == LocalToFile \/ FileToLocal \/ LocalBackToFile

SpecPath == InitPath /\ [][NextPath]_vars

Converted == path.st = "done" /\ path.err = ""

\* C19: a path that was converted holds no backslash and no two adjacent
\* slashes.
C19_SeparatorsCollapsed ==
    Converted =>
        /\ \A k \in 1..Len(path.out) : path.out[k] # "\\"
        /\ \A k \in 1..(Len(path.out) - 1) :
              ~(path.out[k] = "/" /\ path.out[k + 1] = "/")

\* The local path is a volume, a colon and then a character that is no
\* separator: the `c:file` form.
VolumeWithoutRoot(s) ==
    \E k \in 2..(Len(s) - 1) :
        /\ s[k] = ":"
        /\ \A j \in 1..(k - 1) : s[j] = "c"
        /\ s[k + 1] = "c"

\* C20: a local path of the `c:file` form is refused with an error.
C20_VolumeFileRejected ==
    (path.st = "done" /\ VolumeWithoutRoot(path.in)) => path.err # ""

(***************************************************************************)
(* Part 6: integer math verbs (t-integer.c) and the integer scanner        *)
(* (l-types.c).  TLC's integers are narrower than REBI64, so the math      *)
(* verbs run on a two's complement word of IntBits bits: INT64_MIN and     *)
(* INT64_MAX are the ends of that word.                                    *)
(***************************************************************************)
IntBits == 4
INT64_MAX == 2 ^ (IntBits - 1) - 1
INT64_MIN == -(2 ^ (IntBits - 1))
I64 == INT64_MIN..INT64_MAX

\* What a wider-than-word result is left as in the word
Wrap64(x) == ((x - INT64_MIN) % (2 ^ IntBits)) + INT64_MIN

Magnitude(x) == IF x < 0 THEN -x ELSE x

\* C's `/` and `%` on integers: the quotient is truncated towards zero
C_Div(a, b) ==
    LET q == Magnitude(a) \div Magnitude(b)
    IN  IF (a < 0) = (b < 0) THEN q ELSE -q

C_Rem(a, b) == a - b * C_Div(a, b)

\* The checked operations: `of` tells that the result does not fit
REB_I64_ADD_OF(a, b) == [of |-> (a + b) \notin I64, val |-> Wrap64(a + b)]

REB_I64_SUB_OF(a, b) == [of |-> (a - b) \notin I64, val |-> Wrap64(a - b)]

REB_I64_MUL_OF(a, b) == [of |-> (a * b) \notin I64, val |-> Wrap64(a * b)]

Init_Integer(v) == [type |-> "integer", val |-> v, err |-> ""]

RAISE(e) == [type |-> "error", val |-> 0, err |-> e]

\* The decimal dispatcher, entered with both arguments made decimals
T_Decimal(verb, d1, d2) == [type |-> "decimal", val |-> 0, err |-> ""]

BinaryVerbs == {"add", "subtract", "multiply", "divide", "power", "remainder"}
UnaryVerbs == {"negate", "absolute"}

T_Integer_WrapNegate(verb, num, arg) ==
    CASE verb = "add" ->
           LET r == REB_I64_ADD_OF(num, arg)
           IN  IF r.of THEN RAISE("overflow") ELSE Init_Integer(r.val)
      [] verb = "subtract" ->
           LET r == REB_I64_SUB_OF(num, arg)
           IN  IF r.of THEN RAISE("overflow") ELSE Init_Integer(r.val)
      [] verb = "multiply" ->
           LET r == REB_I64_MUL_OF(num, arg)
           IN  IF r.of THEN RAISE("overflow") ELSE Init_Integer(r.val)
      [] verb = "negate" -> Init_Integer(Wrap64(-num))
      [] verb = "absolute" ->
           Init_Integer(IF num < 0 THEN Wrap64(-num) ELSE num)
      [] OTHER -> T_Decimal(verb, num, arg)

T_Integer_DivideUnchecked(verb, num, arg) ==
    CASE verb = "divide" ->
           IF arg = 0 THEN RAISE("zero-divide")
           ELSE IF C_Rem(num, arg) = 0
           THEN Init_Integer(Wrap64(C_Div(num, arg)))
           ELSE T_Decimal(verb, num, arg)
      [] OTHER -> T_Decimal(verb, num, arg)

\* REBTYPE(Integer) on an integer and, for the binary verbs, an integer
\* second argument
T_Integer(verb, num, arg) ==
    CASE verb = "add" ->
           LET r == REB_I64_ADD_OF(num, arg)
           IN  IF r.of THEN RAISE("overflow") ELSE Init_Integer(r.val)
      [] verb = "subtract" ->
           LET r == REB_I64_SUB_OF(num, arg)
           IN  IF r.of THEN RAISE("overflow") ELSE Init_Integer(r.val)
      [] verb = "multiply" ->
           LET r == REB_I64_MUL_OF(num, arg)
           IN  IF r.of THEN RAISE("overflow") ELSE Init_Integer(r.val)
      [] verb = "divide" ->
           IF arg = 0 THEN RAISE("zero-divide")
           ELSE IF num = INT64_MIN /\ arg = -1 THEN RAISE("overflow")
           ELSE IF C_Rem(num, arg) = 0 THEN Init_Integer(C_Div(num, arg))
           ELSE T_Decimal(verb, num, arg)
      [] verb = "power" -> T_Decimal(verb, num, arg)
      [] verb = "remainder" ->
           IF arg = 0 THEN RAISE("zero-divide")
           ELSE Init_Integer(IF arg # -1 THEN C_Rem(num, arg) ELSE 0)
      [] verb = "negate" ->
           IF num = INT64_MIN THEN RAISE("overflow")
           ELSE Init_Integer(-num)
      [] verb = "absolute" ->
           IF num = INT64_MIN THEN RAISE("overflow")
           ELSE Init_Integer(IF num < 0 THEN -num ELSE num)

\* ---- Scan_Integer ----
\* The scanner works on the digits of the token, so its model keeps all 64
\* bits: an integer is a sign and the decimal digits of its magnitude
\* (none for zero).

Digits == {"0", "1", "2", "3", "4", "5", "6", "7", "8", "9"}
DigitVal == [d \in Digits |->
               CASE d = "0" -> 0 [] d = "1" -> 1 [] d = "2" -> 2 [] d = "3" -> 3
                 [] d = "4" -> 4 [] d = "5" -> 5 [] d = "6" -> 6 [] d = "7" -> 7
                 [] d = "8" -> 8 [] d = "9" -> 9]

MAX_NUM_LEN == 64
MaxDigits == 19
Int64MaxDigits == <<"9", "2", "2", "3", "3", "7", "2", "0", "3", "6", "8", "5", "4", "7", "7", "5", "8", "0", "7">>
Int64MinDigits == <<"9", "2", "2", "3", "3", "7", "2", "0", "3", "6", "8", "5", "4", "7", "7", "5", "8", "0", "8">>

\* Whether digit text a is at most digit text b of the same length
RECURSIVE DigitsLeq(_, _)
DigitsLeq(a, b) ==
    IF a = <<>> THEN TRUE
    ELSE IF DigitVal[Head(a)] # DigitVal[Head(b)]
    THEN DigitVal[Head(a)] < DigitVal[Head(b)]
    ELSE DigitsLeq(Tail(a), Tail(b))

\* Whether the magnitude written by the digits d (no leading zero) is at
\* most the one written by lim
MagnitudeLeq(d, lim) ==
    \/ Len(d) < Len(lim)
    \/ Len(d) = Len(lim) /\ DigitsLeq(d, lim)

ScannedInteger(neg, mag) == [type |-> "integer", neg |-> neg, mag |-> mag]
return_NULL == [type |-> "none", neg |-> FALSE, mag |-> <<>>]

\* strtoll on the buffer (an optional `-` and digits without leading
\* zero): the value, or ERANGE when it is outside the 64-bit range
CHR_TO_INT(neg, digits) ==
    IF MagnitudeLeq(digits, IF neg THEN Int64MinDigits ELSE Int64MaxDigits)
    THEN [errno |-> 0, neg |-> neg, mag |-> digits]
    ELSE [errno |-> 1, neg |-> neg,
          mag |-> IF neg THEN Int64MinDigits ELSE Int64MaxDigits]

\* The loop that removes leading zeros and ' marks: the first position
\* from p on that holds neither
RECURSIVE Skip_Zeros(_, _)
Skip_Zeros(tok, p) ==
    IF p <= Len(tok) /\ tok[p] \in {"0", "'"} THEN Skip_Zeros(tok, p + 1)
    ELSE p

\* The loop that copies the digits: the digits copied, or "bad" at a
\* character that is neither a digit nor a ' mark
RECURSIVE Copy_Digits(_, _, _)
Copy_Digits(tok, p, buf) ==
    IF p > Len(tok) THEN buf
    ELSE IF tok[p] \in Digits THEN Copy_Digits(tok, p + 1, Append(buf, tok[p]))
    ELSE IF tok[p] = "'" THEN Copy_Digits(tok, p + 1, buf)
    ELSE "bad"

Scan_Integer(tok) ==
    IF Len(tok) = 1 /\ tok[1] = "0" THEN ScannedInteger(FALSE, <<>>)
    ELSE IF Len(tok) = 1 /\ tok[1] = "1" THEN ScannedInteger(FALSE, <<"1">>)
    ELSE IF Len(tok) > MAX_NUM_LEN THEN return_NULL
    ELSE LET neg == tok[1] = "-"
             p0 == IF tok[1] \in {"-", "+"} THEN 2 ELSE 1
             p1 == Skip_Zeros(tok, p0)
             buf == Copy_Digits(tok, p1, <<>>)
         IN  IF p1 > Len(tok) THEN ScannedInteger(FALSE, <<>>)
             ELSE IF buf = "bad" THEN return_NULL
             ELSE IF Len(buf) > MaxDigits THEN return_NULL
             ELSE LET v == CHR_TO_INT(neg, buf)
                  IN  IF v.errno # 0 THEN return_NULL
                      ELSE IF (~v.neg /\ v.mag # <<>> /\ neg)
                               \/ (v.neg /\ v.mag # <<>> /\ ~neg)
                      THEN return_NULL
                      ELSE ScannedInteger(neg, buf)

\* The tokens scanned: a sign, leading zeros and ' marks, and a body
Signs == {<<>>, <<"-">>, <<"+">>}
Leads == {<<>>, <<"0">>, <<"'">>, <<"0", "0", "'">>,
          [k \in 1..MAX_NUM_LEN |-> "0"]}
Bodies == {<<>>, <<"1">>, <<"7">>, <<"1", "'", "0">>, <<"1", "x">>,
           <<"1", "-">>, <<"7", "0", "'">>,
           Int64MaxDigits, Int64MinDigits,
           <<"9", "'">> \o Tail(Int64MaxDigits),
           Tail(Int64MaxDigits) \o <<"0">>,
           Int64MaxDigits \o <<"0">>,
           [k \in 1..MaxDigits |-> "9"]}
Tokens == {s \o l \o b : s \in Signs, l \in Leads, b \in Bodies} \ {<<>>}

\* ---- The logic natives (t-logic.c) ----

\* The values handed to a logic native: any value but null (a logic holds
\* 1 for true and 0 for false)
LogicArgs ==
    {[type |-> "logic", val |-> 1], [type |-> "logic", val |-> 0],
     [type |-> "integer", val |-> 0], [type |-> "integer", val |-> 1],
     [type |-> "blank", val |-> 0], [type |-> "block", val |-> 0]}

\* A value is conditionally true unless it is null or the logic false
Is_Truthy(v) == ~(v.type = "null" \/ (v.type = "logic" /\ v.val = 0))

Init_Logic(flag) ==
    [type |-> "logic", val |-> IF flag THEN 1 ELSE 0, err |-> ""]

nand_q(value1, value2) == Init_Logic(Is_Truthy(value1) /\ Is_Truthy(value2))

InitInt ==
    /\ \/ \E verb \in BinaryVerbs, num \in I64, arg \in I64 :
             calc = [kind |-> "math", verb |-> verb, num |-> num,
                     arg |-> arg, st |-> "input", res |-> RAISE("none")]
       \/ \E verb \in UnaryVerbs, num \in I64 :
             calc = [kind |-> "math", verb |-> verb, num |-> num,
                     arg |-> 0, st |-> "input", res |-> RAISE("none")]
       \/ \E tok \in Tokens :
             calc = [kind |-> "scan", tok |-> tok, st |-> "input",
                     res |-> return_NULL]
       \/ \E value1 \in LogicArgs, value2 \in LogicArgs :
             calc = [kind |-> "nand?", value1 |-> value1, value2 |-> value2,
                     st |-> "input", res |-> RAISE("none")]
    /\ CoreIdle
    /\ RedIdle
    /\ ChildIdle
    /\ TxtIdle
    /\ WalkIdle

\* The generic dispatch of a math verb to an integer
IntegerVerb ==
    /\ calc.kind = "math" /\ calc.st = "input"
    /\ calc' = [calc EXCEPT !.st = "done",
                  !.res = T_Integer(calc.verb, calc.num, calc.arg)]
    /\ UNCHANGED notCalc

\* The scanner hands an integer-looking token to Scan_Integer
ScanInteger ==
    /\ calc.kind = "scan" /\ calc.st = "input"
    /\ calc' = [calc EXCEPT !.st = "done", !.res = Scan_Integer(calc.tok)]
    /\ UNCHANGED notCalc

\* NAND? is called with two values
NandQ ==
    /\ calc.kind = "nand?" /\ calc.st = "input"
    /\ calc' = [calc EXCEPT !.st = "done",
                  !.res = nand_q(calc.value1, calc.value2)]
    /\ UNCHANGED notCalc

NextInt == IntegerVerb \/ ScanInteger \/ NandQ

SpecInt == InitInt /\ [][NextInt]_vars

\* The mathematical result of a verb
Exact(verb, a, b) ==
    CASE verb = "add" -> a + b
      [] verb = "subtract" -> a - b
      [] verb = "multiply" -> a * b
      [] verb = "negate" -> -a
      [] verb = "absolute" -> Magnitude(a)

\* C24: add, subtract, multiply, negate and absolute give the exact result
\* when it fits in the signed word and raise overflow when it does not;
\* they never give a wrapped value.
C24_ExactOrOverflow ==
    /\ calc.kind = "math" /\ calc.st = "done"
    /\ calc.verb \in {"add", "subtract", "multiply", "negate", "absolute"}
    => LET x == Exact(calc.verb, calc.num, calc.arg)
       IN  IF x \in I64
           THEN calc.res = Init_Integer(x)
           ELSE calc.res = RAISE("overflow")

\* The negation of the most negative integer raised overflow
C24_Witness ==
    /\ calc.kind = "math" /\ calc.st = "done"
    /\ calc.verb = "negate" /\ calc.num = INT64_MIN
    /\ calc.res = RAISE("overflow")

\* C25 (as stated): with a divisor that is not zero, divide gives the
\* integer quotient when the division is exact and the quotient fits, and
\* a decimal in every other case; power always gives a decimal.
C25_DivideAndPowerPromote ==
    /\ calc.kind = "math" /\ calc.st = "done"
    => /\ calc.verb = "power" => calc.res.type = "decimal"
       /\ calc.verb = "divide" /\ calc.arg # 0 =>
             IF /\ C_Rem(calc.num, calc.arg) = 0
                /\ C_Div(calc.num, calc.arg) \in I64
             THEN calc.res = Init_Integer(C_Div(calc.num, calc.arg))
             ELSE calc.res.type = "decimal"

\* C25 (amended): with a divisor that is not zero, divide gives the integer
\* quotient when the division is exact and the quotient fits, raises
\* overflow for the most negative integer divided by -1 (the one exact
\* quotient that does not fit), and gives a decimal when the division is
\* not exact; power always gives a decimal.
C25_DivideRaisesOnMinByMinusOne ==
    /\ calc.kind = "math" /\ calc.st = "done"
    => /\ calc.verb = "power" => calc.res.type = "decimal"
       /\ calc.verb = "divide" /\ calc.arg # 0 =>
             IF C_Rem(calc.num, calc.arg) # 0
             THEN calc.res.type = "decimal"
             ELSE IF C_Div(calc.num, calc.arg) \in I64
             THEN calc.res = Init_Integer(C_Div(calc.num, calc.arg))
             ELSE /\ calc.num = INT64_MIN /\ calc.arg = -1
                  /\ calc.res = RAISE("overflow")

\* The most negative integer divided by -1 raised overflow
C25_Witness ==
    /\ calc.kind = "math" /\ calc.st = "done" /\ calc.verb = "divide"
    /\ calc.num = INT64_MIN /\ calc.arg = -1
    /\ calc.res = RAISE("overflow")

\* The digits of a token without its leading zeros
RECURSIVE WithoutLeadingZeros(_)
WithoutLeadingZeros(d) ==
    IF d # <<>> /\ Head(d) = "0" THEN WithoutLeadingZeros(Tail(d)) ELSE d

IsDigit(c) == c \in Digits

SignificantDigits(tok) == WithoutLeadingZeros(SelectSeq(tok, IsDigit))

\* C26: scanning an integer token gives the exact signed 64-bit value of
\* its digits (sign applied, ' marks and leading zeros ignored) or no
\* integer: a token with more than 19 significant digits, with a value
\* outside the 64-bit range or with no digit never gives an integer.
C26_ScanExactOrNothing ==
    calc.kind = "scan" /\ calc.st = "done" /\ calc.res.type = "integer" =>
        LET d == SignificantDigits(calc.tok)
            neg == calc.tok[1] = "-" /\ d # <<>>
        IN  /\ \E k \in 1..Len(calc.tok) : calc.tok[k] \in Digits
            /\ Len(d) <= MaxDigits
            /\ MagnitudeLeq(d, IF neg THEN Int64MinDigits ELSE Int64MaxDigits)
            /\ calc.res = ScannedInteger(neg, d)

(***************************************************************************)
(* Part 7: REDUCE (n-reduce.c).  The block is a sequence of expressions;   *)
(* the evaluator is outside this model, so each expression is given as     *)
(* the NEWLINE_BEFORE flag of its first cell and the result the evaluator  *)
(* leaves in OUT.  The native is entered once per state of its STATE byte. *)
(***************************************************************************)
MaxSteps == 2

ArrayCell(v, nl) == [v |-> v, nl |-> nl]

\* Results of an evaluation step.  A value made by an evaluation carries no
\* newline flag; the items of a spliced block carry the flags they have in
\* that block.
ValueResult(v) == [k |-> "value", items |-> <<ArrayCell(v, FALSE)>>]
VoidResult == [k |-> "void", items |-> <<>>]
NihilResult == [k |-> "nihil", items |-> <<>>]
NullResult == [k |-> "null", items |-> <<>>]
IsotopeResult == [k |-> "isotope", items |-> <<>>]
SpliceResult(items) == [k |-> "splice", items |-> items]

StepResults ==
    {ValueResult("a"), VoidResult, NihilResult, NullResult, IsotopeResult,
     SpliceResult(<<ArrayCell("a", FALSE), ArrayCell("b", FALSE)>>),
     SpliceResult(<<ArrayCell("a", TRUE), ArrayCell("b", FALSE)>>)}

\* What a predicate can give for the result it is offered
PredicateResults == {ValueResult("p"), VoidResult, NullResult}

Expressions == [nl : BOOLEAN, res : StepResults]
Blocks == UNION {[1..k -> Expressions] : k \in 0..MaxSteps}

Is_Nihil(out) == out.k = "nihil"
Out_Is_Void(out) == out.k = "void"
Is_Nulled(out) == out.k = "null"
Out_Is_Splice(out) == out.k = "splice"
Is_Isotope(out) == out.k \in {"isotope", "splice"}

\* `finished`: the pushed values become the result array, which takes the
\* NEWLINE_AT_TAIL flag of the source array.
Reduce_Finished(r) ==
    [r EXCEPT !.st = "done", !.stack = <<>>,
              !.result = [cells |-> r.stack, tailnl |-> r.block.tailnl]]

\* `next_reduce_step`: finish at the end of the feed, else cache the newline
\* flag of the next expression on the ARG(value) cell and run the evaluator.
Next_Reduce_Step(r) ==
    IF r.i > Len(r.block.exprs) THEN Reduce_Finished(r)
    ELSE [r EXCEPT !.vnl = r.block.exprs[r.i].nl, !.state = "eval-step"]

ReduceRaise(r, e) == [r EXCEPT !.st = "raised", !.err = e, !.stack = <<>>]

\* The splice loop: every item is pushed as it is, and the first one gets
\* NEWLINE_BEFORE set when the cached flag is set.
Push_Splice(stack, items, newline) ==
    stack \o [k \in 1..Len(items) |->
                 IF k = 1 /\ newline THEN ArrayCell(items[k].v, TRUE)
                 ELSE items[k]]

\* A result REDUCE has processed, and the expression it came from
Processed(out, src) == [out |-> out, src |-> src]

Process_Out_VoidStops(r, out) ==
    LET r1 == [r EXCEPT !.outs = Append(r.outs, Processed(out, r.i - 1))]
    IN  IF Is_Nihil(out) \/ Out_Is_Void(out) THEN Reduce_Finished(r1)
        ELSE IF Is_Nulled(out) THEN ReduceRaise(r1, "need-non-null")
        ELSE IF Out_Is_Splice(out)
        THEN Next_Reduce_Step(
                 [r1 EXCEPT !.stack = Push_Splice(r.stack, out.items, r.vnl)])
        ELSE IF Is_Isotope(out) THEN ReduceRaise(r1, "bad-isotope")
        ELSE Next_Reduce_Step(
                 [r1 EXCEPT !.stack = Append(r.stack,
                     ArrayCell(out.items[1].v, out.items[1].nl \/ r.vnl))])

Process_Out_NullSkipped(r, out) ==
    LET r1 == [r EXCEPT !.outs = Append(r.outs, Processed(out, r.i - 1))]
    IN  IF Is_Nihil(out) \/ Out_Is_Void(out) \/ Is_Nulled(out)
        THEN Next_Reduce_Step(r1)
        ELSE IF Out_Is_Splice(out)
        THEN Next_Reduce_Step(
                 [r1 EXCEPT !.stack = Push_Splice(r.stack, out.items, r.vnl)])
        ELSE IF Is_Isotope(out) THEN ReduceRaise(r1, "bad-isotope")
        ELSE Next_Reduce_Step(
                 [r1 EXCEPT !.stack = Append(r.stack,
                     ArrayCell(out.items[1].v, out.items[1].nl \/ r.vnl))])

\* `process_out`: what REDUCE does with the result of a step (the result of
\* the predicate when there is one).
Process_Out(r, out) ==
    LET r1 == [r EXCEPT !.outs = Append(r.outs, Processed(out, r.i - 1))]
    IN  IF Is_Nihil(out) \/ Out_Is_Void(out) THEN Next_Reduce_Step(r1)
        ELSE IF Is_Nulled(out) THEN ReduceRaise(r1, "need-non-null")
        ELSE IF Out_Is_Splice(out)
        THEN Next_Reduce_Step(
                 [r1 EXCEPT !.stack = Push_Splice(r.stack, out.items, r.vnl)])
        ELSE IF Is_Isotope(out) THEN ReduceRaise(r1, "bad-isotope")
        ELSE Next_Reduce_Step(
                 [r1 EXCEPT !.stack = Append(r.stack,
                     ArrayCell(out.items[1].v, out.items[1].nl \/ r.vnl))])

NoArray == [cells |-> <<>>, tailnl |-> FALSE]

InitReduce ==
    /\ \E exprs \in Blocks, tailnl \in BOOLEAN, predicate \in BOOLEAN :
          red = [block |-> [exprs |-> exprs, tailnl |-> tailnl],
                 predicate |-> predicate, state |-> "initial-entry",
                 i |-> 1, vnl |-> FALSE, OUT |-> VoidResult, outs |-> <<>>,
                 stack |-> <<>>, st |-> "running", err |-> "",
                 result |-> NoArray]
    /\ CoreIdle
    /\ CalcIdle
    /\ ChildIdle
    /\ TxtIdle
    /\ WalkIdle

\* ST_REDUCE_INITIAL_ENTRY on a block: the subframe is pushed
Reduce_Initial_Entry ==
    /\ red.st = "running" /\ red.state = "initial-entry"
    /\ red' = Next_Reduce_Step(red)
    /\ UNCHANGED notRed

\* ST_REDUCE_EVAL_STEP: the evaluator has run one expression of the feed
\* and left its result in OUT
Reduce_Step_Result_In_Out ==
    /\ red.st = "running" /\ red.state = "eval-step"
    /\ LET out == red.block.exprs[red.i].res
           r == [red EXCEPT !.OUT = out, !.i = red.i + 1]
       IN  red' = IF ~red.predicate THEN Process_Out(r, out)
                  ELSE IF Is_Nihil(out) \/ Out_Is_Void(out)
                  THEN Next_Reduce_Step(r)
                  ELSE [r EXCEPT !.state = "running-predicate"]
    /\ UNCHANGED notRed

\* ST_REDUCE_RUNNING_PREDICATE: the predicate has run on OUT
Reduce_Predicate_Result ==
    /\ red.st = "running" /\ red.state = "running-predicate"
    /\ \E out \in PredicateResults :
          red' = Process_Out([red EXCEPT !.OUT = out], out)
    /\ UNCHANGED notRed

NextReduce ==
    \/ Reduce_Initial_Entry
    \/ Reduce_Step_Result_In_Out
    \/ Reduce_Predicate_Result

SpecReduce == InitReduce /\ [][NextReduce]_vars

\* The values of a sequence of cells, without their flags
CellValues(cells) == [k \in 1..Len(cells) |-> cells[k].v]

\* The values that a sequence of processed results puts in the block: a
\* value itself, a splice its items, void and nihil nothing
RECURSIVE Emitted(_)
Emitted(outs) ==
    IF outs = <<>> THEN <<>>
    ELSE CellValues(Head(outs).out.items) \o Emitted(Tail(outs))

ExprResults(r) == [k \in 1..Len(r.block.exprs) |-> r.block.exprs[k].res]

C28_NullStepRaises ==
    \A k \in 1..Len(red.block.exprs) :
        /\ k < red.i /\ Is_Nulled(red.block.exprs[k].res)
        /\ ~(k = red.i - 1 /\ red.state = "running-predicate"
                /\ red.st = "running")
        => /\ red.st = "raised" /\ red.err = "need-non-null"
           /\ red.i = k + 1 /\ red.result = NoArray

\* C28 (amended): when the result REDUCE processes for a step (the result
\* of the evaluation, or of the predicate when there is one) is null, REDUCE
\* raises need-non-null at that step and returns no block; a null that the
\* evaluation produces is offered to the predicate and raises only if the
\* predicate gives null.
C28_NullResultRaises ==
    /\ \A k \in 1..Len(red.outs) :
          Is_Nulled(red.outs[k].out) =>
              /\ k = Len(red.outs)
              /\ red.st = "raised" /\ red.err = "need-non-null"
              /\ red.i = red.outs[k].src + 1 /\ red.result = NoArray
    /\ ~red.predicate =>
          \A k \in 1..Len(red.block.exprs) :
              k < red.i /\ Is_Nulled(red.block.exprs[k].res) =>
                  /\ red.st = "raised" /\ red.err = "need-non-null"
                  /\ red.i = k + 1 /\ red.result = NoArray

\* [a-expression null-expression] raised need-non-null at the second step
C28_Witness ==
    /\ red.st = "raised" /\ red.err = "need-non-null" /\ ~red.predicate
    /\ ExprResults(red) = <<ValueResult("a"), NullResult>>
    /\ red.i = 3 /\ red.result = NoArray

\* For every emitted cell, the NEWLINE_BEFORE flag the source asks for: the
\* flag of the first cell of the expression for the first value a step
\* emits, nothing for the further items of a splice.
RECURSIVE SourceNewlines(_, _)
SourceNewlines(r, outs) ==
    IF outs = <<>> THEN <<>>
    ELSE LET n == Len(Head(outs).out.items)
             e == r.block.exprs[Head(outs).src].nl
         IN  [k \in 1..n |-> IF k = 1 THEN <<e>> ELSE <<>>]
                 \o SourceNewlines(r, Tail(outs))

\* C29: every value REDUCE emits carries newline-before exactly when the
\* first cell of the expression that produced it does (for a splice, the
\* first spliced value), and the result keeps the newline-at-tail of the
\* source array.
C29_NewlinesMirrorSource ==
    red.st = "done" =>
        /\ red.result.tailnl = red.block.tailnl
        /\ LET want == SourceNewlines(red, red.outs)
           IN  \A k \in 1..Len(red.result.cells) :
                   want[k] # <<>> => red.result.cells[k].nl = want[k][1]

(***************************************************************************)
(* Part 8: CALL on POSIX (call-posix.c).  The parent and the forked child  *)
(* run concurrently; every system call of the parent has its outcome       *)
(* chosen by the environment.  Every end of the four pipes is followed     *)
(* from pipe() to close(); the data captured from stderr is handled as     *)
(* that of stdout, and only the bytes of stdout are modelled.              *)
(***************************************************************************)
Errnos == {2, 24}
ForkedPid == 7
InitialExitCode == 20
EXIT_FAILURE == 1
SIGKILL == 9

\* The step by which a capture buffer grows; its value is set in a header
\* of the extension, a small one is used here
BUF_SIZE_CHUNK == 2

\* The most bytes the child writes to its standard output
MaxBytes == 3

PipeEnds == {"stdin", "stdout", "stderr", "info"} \X {"R", "W"}

Exited(code) == [k |-> "exited", v |-> code]
Signaled(sig) == [k |-> "signaled", v |-> sig]

\* pipe(): both ends are opened and their descriptors stored in the array
Open_Pipe(c, p) ==
    [c EXCEPT !.fdvar = @ \cup {<<p, "R">>, <<p, "W">>},
              !.opened = @ \cup {<<p, "R">>, <<p, "W">>}]

\* close(fd) in the parent: one more close of that descriptor
close(c, e) == [c EXCEPT !.closes[e] = IF @ < 2 THEN @ + 1 ELSE @]

\* `if (pipe[x] > 0) close(pipe[x]);` for both ends of a pipe
Close_If_Set(c, e) == IF e \in c.fdvar THEN close(c, e) ELSE c

Close_Pipe(c, p) == Close_If_Set(Close_If_Set(c, <<p, "R">>), <<p, "W">>)

\* `close(pipe[x]); pipe[x] = -1;`
Close_And_Reset(c, e) == [close(c, e) EXCEPT !.fdvar = @ \ {e}]

\* The end of a pipe that the parent enters in pfds
Polled_End(p) == IF p = "stdin" THEN <<p, "W">> ELSE <<p, "R">>

\* `close(pfds[i].fd); pfds[i].fd = -1; --valid_nfds;`: the entry of pfds
\* is reset, the pipe array is not
Close_Polled(c, p) == [close(c, Polled_End(p)) EXCEPT !.open = @ \ {p}]

\* The results of CALL: an error made from an errno, another error, or a
\* normal result
rebFail_OS(ret) == [kind |-> "os-error", v |-> ret]
rebJumps(msg) == [kind |-> "fail", v |-> 0]
NormalResult(c) ==
    IF c.info
    THEN [kind |-> "object", v |-> c.forked_pid]
    ELSE IF c.wait
    THEN [kind |-> "integer", v |-> c.exit_code]
    ELSE [kind |-> "integer", v |-> c.forked_pid]

\* From `stdin_pipe_err:` to the end of Call_Core; the captured bytes are
\* inserted in the /output argument unless a `fail` has jumped out before
Call_Finish(c) ==
    [c EXCEPT !.pc = "done",
       !.output = IF c.non_errno_ret = 0 /\ c.out THEN c.outbuf ELSE <<>>,
       !.result = IF c.non_errno_ret > 0 THEN rebJumps("signal")
                  ELSE IF c.non_errno_ret < 0 THEN rebJumps("unknown")
                  ELSE IF c.ret # 0 THEN rebFail_OS(c.ret)
                  ELSE NormalResult(c)]

\* `stdout_pipe_err:`
Stdout_Pipe_Err(c) == Call_Finish(Close_Pipe(c, "stdin"))

\* `stderr_pipe_err:`
Stderr_Pipe_Err(c) == Stdout_Pipe_Err(Close_Pipe(c, "stdout"))

\* `info_pipe_err:`
Info_Pipe_Err(c) == Stderr_Pipe_Err(Close_Pipe(c, "stderr"))

\* `cleanup:`
Call_Cleanup(c) ==
    LET d == Close_Pipe(c, "info")
    IN  Info_Pipe_Err(
            IF d.infobuf_used = 4 THEN [d EXCEPT !.ret = d.info_errno]
            ELSE IF d.status.k = "exited"
            THEN [d EXCEPT !.exit_code = d.status.v]
            ELSE IF d.status.k = "signaled"
            THEN [d EXCEPT !.non_errno_ret = d.status.v]
            ELSE [d EXCEPT !.non_errno_ret = -2048])

\* `error:`
Call_Error(c) ==
    Call_Cleanup(IF c.ret = 0 THEN [c EXCEPT !.non_errno_ret = -1024] ELSE c)

\* `kill:` the child is killed and reaped; its status is not looked at
Call_Kill(c) == Call_Error([c EXCEPT !.proc = "reaped"])

Terminated(c) == c.proc \in {"exited", "signaled"}

InitCall ==
    /\ \E input \in BOOLEAN, output \in BOOLEAN, error \in BOOLEAN,
          wait \in BOOLEAN, winfo \in BOOLEAN :
          child = [pc |-> "pipes", in |-> input, out |-> output,
                   err |-> error,
                   wait |-> wait, info |-> winfo, proc |-> "none",
                   proc_status |-> Exited(0), info_avail |-> FALSE,
                   info_errno |-> 0, open |-> {}, status |-> Exited(0),
                   ret |-> 0, non_errno_ret |-> 0, infobuf_used |-> 0,
                   forked_pid |-> -1, exit_code |-> InitialExitCode,
                   fdvar |-> {}, opened |-> {},
                   closes |-> [e \in PipeEnds |-> 0],
                   written |-> 0, pipe_out |-> <<>>, outbuf |-> <<>>,
                   outbuf_capacity |-> 0, output |-> <<>>,
                   failed |-> {}, result |-> [kind |-> "none", v |-> 0]]
    /\ CoreIdle
    /\ CalcIdle
    /\ RedIdle
    /\ TxtIdle
    /\ WalkIdle

\* The pipes asked for by the arguments, then the info pipe, are opened;
\* a pipe that cannot be opened jumps to the closing labels: the stdin pipe
\* to `stdin_pipe_err`, the stdout pipe and the stderr pipe both to
\* `stdout_pipe_err`, the info pipe to `info_pipe_err`.
OpenPipes ==
    /\ child.pc = "pipes"
    /\ LET Failed(c) == [c EXCEPT !.failed = @ \cup {"pipe"}]
           c1 == IF child.in THEN Open_Pipe(child, "stdin") ELSE child
           c2 == IF child.out THEN Open_Pipe(c1, "stdout") ELSE c1
           c3 == IF child.err THEN Open_Pipe(c2, "stderr") ELSE c2
       IN  \/ child.in /\ child' = Call_Finish(Failed(child))
           \/ child.out /\ child' = Stdout_Pipe_Err(Failed(c1))
           \/ child.err /\ child' = Stdout_Pipe_Err(Failed(c2))
           \/ child' = Info_Pipe_Err(Failed(c3))
           \/ child' = [Open_Pipe(c3, "info") EXCEPT !.pc = "fork"]
    /\ UNCHANGED notChild

\* fork()
Fork ==
    /\ child.pc = "fork"
    /\ \/ \E e \in Errnos :
             child' = Call_Error([child EXCEPT !.ret = e,
                                     !.failed = @ \cup {"fork"}])
       \/ child' = [child EXCEPT !.forked_pid = ForkedPid, !.pc = "setup",
                                 !.proc = "forked"]
    /\ UNCHANGED notChild

\* The child branch: the descriptors are redirected and execvp is called;
\* when that fails errno is written to the info pipe and the child exits.
ChildExec ==
    /\ child.proc = "forked"
    /\ \/ child' = [child EXCEPT !.proc = "running"]
       \/ \E e \in Errnos :
             child' = [child EXCEPT !.proc = "exited",
                          !.proc_status = Exited(EXIT_FAILURE),
                          !.info_avail = TRUE, !.info_errno = e,
                          !.failed = @ \cup {"exec"}]
    /\ UNCHANGED notChild

\* The program run by the child writes one more byte to its standard
\* output, which is the write end of the stdout pipe
ChildWrites ==
    /\ child.proc = "running"
    /\ child.out
    /\ child.written < MaxBytes
    /\ child' = [child EXCEPT !.written = @ + 1,
                              !.pipe_out = Append(@, child.written + 1)]
    /\ UNCHANGED notChild

\* The program run by the child ends, by itself or by a signal
ChildEnds ==
    /\ child.proc = "running"
    /\ \E s \in {Exited(0), Exited(3), Signaled(SIGKILL)} :
          child' = [child EXCEPT !.proc = s.k, !.proc_status = s]
    /\ UNCHANGED notChild

\* One section of the parent's setup: the end the parent uses is entered
\* in pfds, the capture buffer allocated, the other end closed and reset
Setup_Section(c, p) ==
    LET other == IF p = "stdin" THEN <<p, "R">> ELSE <<p, "W">>
        d == [Close_And_Reset(c, other) EXCEPT !.open = @ \cup {p}]
    IN  IF p = "stdout" THEN [d EXCEPT !.outbuf_capacity = BUF_SIZE_CHUNK]
        ELSE d

RECURSIVE Setup_Sections(_, _, _)
Setup_Sections(c, ps, n) ==
    IF n = 0 THEN c
    ELSE Setup_Sections(Setup_Section(c, Head(ps)), Tail(ps), n - 1)

\* The pipes whose section runs: those with `pipe[x] > 0`
Polled_Pipes(c) ==
    SelectSeq(<<"stdin", "stdout", "stderr", "info">>,
              LAMBDA p : Polled_End(p) \in c.fdvar)

\* The parent branch before its loop: the pipe ends are made non-blocking
\* and entered in pfds; a failure of fcntl in a section jumps to `kill:`
\* with the sections before it done
ParentSetup ==
    /\ child.pc = "setup"
    /\ LET ps == Polled_Pipes(child)
       IN  \/ \E n \in 0..(Len(ps) - 1) :
                 child' = Call_Kill(
                     [Setup_Sections(child, ps, n)
                         EXCEPT !.failed = @ \cup {"fcntl"}])
           \/ child' = [Setup_Sections(child, ps, Len(ps))
                           EXCEPT !.pc = "loop"]
    /\ UNCHANGED notChild

\* Reading what the info pipe holds
Read_Info(c) ==
    IF "info" \in c.open /\ c.info_avail
    THEN [c EXCEPT !.infobuf_used = 4, !.info_avail = FALSE]
    ELSE c

\* safe_read of at most n bytes from the stdout pipe into outbuf
Read_Out(c, n) ==
    LET k == IF n < Len(c.pipe_out) THEN n ELSE Len(c.pipe_out)
    IN  [c EXCEPT !.outbuf = @ \o SubSeq(c.pipe_out, 1, k),
                  !.pipe_out = SubSeq(@, k + 1, Len(@))]

\* The last read after waitpid has reported the child: one safe_read of
\* the free space of the buffer
Last_Read(c) ==
    IF "stdout" \in c.open
    THEN Read_Out(c, c.outbuf_capacity - Len(c.outbuf))
    ELSE c

\* The do-while of POLLIN: reads of the free space of the buffer, which
\* grows by a chunk each time it is full, while the reads fill it
RECURSIVE Read_Loop(_)
Read_Loop(c) ==
    LET to_read == c.outbuf_capacity - Len(c.outbuf)
        nbytes == IF to_read < Len(c.pipe_out) THEN to_read
                  ELSE Len(c.pipe_out)
        d == Read_Out(c, to_read)
        e == IF Len(d.outbuf) = d.outbuf_capacity
             THEN [d EXCEPT !.outbuf_capacity = @ + BUF_SIZE_CHUNK]
             ELSE d
    IN  IF nbytes <= 0 THEN c
        ELSE IF nbytes = to_read THEN Read_Loop(e)
        ELSE e

\* The top of the loop: waitpid with WNOHANG
LoopWaitpid ==
    /\ child.pc = "loop"
    /\ \/ \E e \in Errnos : child' = Call_Error([child EXCEPT !.ret = e])
       \/ /\ Terminated(child)
          /\ child' = Call_Cleanup(
                 Read_Info(Last_Read(
                     [child EXCEPT !.status = child.proc_status,
                                   !.proc = "reaped"])))
       \/ /\ ~Terminated(child)
          /\ child' = [child EXCEPT !.pc = "poll"]
    /\ UNCHANGED notChild

\* After an event was handled: the loop goes on while a descriptor is
\* valid; after it the child is waited for under /WAIT
Loop_Continue(c) ==
    IF c.open # {} THEN [c EXCEPT !.pc = "loop"]
    ELSE IF c.wait THEN [c EXCEPT !.pc = "final-wait"]
    ELSE Call_Cleanup(c)

\* poll and the handling of the events it reports
LoopPoll ==
    /\ child.pc = "poll"
    /\ \/ \E e \in Errnos :
             child' = Call_Kill([child EXCEPT !.ret = e,
                                    !.failed = @ \cup {"poll"}])
       \/ /\ "stdin" \in child.open
          /\ \/ \E e \in Errnos :
                   child' = Call_Kill([child EXCEPT !.ret = e,
                                          !.failed = @ \cup {"write"}])
             \/ child' = Loop_Continue(Close_Polled(child, "stdin"))
       \/ /\ "info" \in child.open /\ child.info_avail
          /\ child' = Loop_Continue(Read_Info(child))
       \/ /\ "stdout" \in child.open /\ child.pipe_out # <<>>
          /\ child' = Loop_Continue(Read_Loop(child))
       \/ \E fd \in child.open :
             /\ IF fd = "info" THEN child.proc # "forked"
                ELSE Terminated(child)
             /\ child' = Loop_Continue(
                    Close_Polled(
                        Read_Info(IF fd = "stdout" THEN Read_Loop(child)
                                  ELSE child), fd))
    /\ UNCHANGED notChild

\* waitpid without WNOHANG, after the loop
FinalWait ==
    /\ child.pc = "final-wait"
    /\ \/ \E e \in Errnos : child' = Call_Error([child EXCEPT !.ret = e])
       \/ /\ Terminated(child)
          /\ child' = Call_Cleanup([child EXCEPT !.status = child.proc_status,
                                                 !.proc = "reaped"])
    /\ UNCHANGED notChild

NextCall ==
    \/ OpenPipes
    \/ Fork
    \/ ChildExec
    \/ ChildWrites
    \/ ChildEnds
    \/ ParentSetup
    \/ LoopWaitpid
    \/ LoopPoll
    \/ FinalWait

SpecCall == InitCall /\ [][NextCall]_vars

\* C30: a failure of pipe creation, fork, exec in the child, poll or the
\* write to the child's stdin ends CALL in an error made from an errno;
\* CALL never returns a normal result after such a failure.
C30_FailuresRaiseErrno ==
    /\ child.pc = "done"
    /\ child.failed \cap {"pipe", "fork", "exec", "poll", "write"} # {}
    =>
        child.result.kind = "os-error" /\ child.result.v \in Errnos

\* ---- The pipe descriptors of CALL ----

\* C37: on every path through CALL each pipe descriptor that was opened is
\* closed exactly once by the parent before CALL returns or raises: none
\* is closed twice, and when CALL is over none is left open.
C37_EachDescriptorClosedOnce ==
    /\ \A e \in PipeEnds : child.closes[e] <= 1
    /\ child.pc = "done" => \A e \in child.opened : child.closes[e] = 1

\* ---- The output captured by CALL ----

\* C38: when CALL has captured stdout and returns normally, the captured
\* data is every byte the child wrote, in the order it wrote them.
C38_CapturesEveryByte ==
    /\ child.pc = "done" /\ child.out
    /\ child.result.kind \in {"integer", "object"}
    /\ "pipe" \notin child.failed
    => child.output = [k \in 1..child.written |-> k]

\* ---- FILE-TO-LOCAL: `.` and `..` segments ----

\* Where the segment that starts after i characters ends
RECURSIVE SegEnd(_, _)
SegEnd(s, i) == IF i < Len(s) /\ s[i + 1] # "/" THEN SegEnd(s, i + 1) ELSE i

\* A text that ends in a separator, without its last segment
RECURSIVE WithoutLastSegment(_, _)
WithoutLastSegment(mo, n) ==
    IF n > 0 /\ mo[n] # "/" THEN WithoutLastSegment(mo, n - 1)
    ELSE SubSeq(mo, 1, n)

\* The segments of s from i on, written after mo: `.` writes nothing, `..`
\* takes the last written segment away, anything else is written as it is.
RECURSIVE DotSegmentsResolved(_, _, _)
DotSegmentsResolved(s, i, mo) ==
    IF i >= Len(s) THEN mo
    ELSE LET j == SegEnd(s, i)
             seg == SubSeq(s, i + 1, j)
             sep == IF j < Len(s) THEN <<"/">> ELSE <<>>
         IN  IF seg = <<".">> THEN DotSegmentsResolved(s, j + 1, mo)
             ELSE IF seg = <<".", ".">>
             THEN DotSegmentsResolved(s, j + 1,
                      IF Len(mo) > 1
                      THEN WithoutLastSegment(mo, Len(mo) - 1) ELSE mo)
             ELSE IF seg = <<>> /\ Len(mo) > 0 /\ mo[Len(mo)] = "/"
             THEN DotSegmentsResolved(s, j + 1, mo)
             ELSE DotSegmentsResolved(s, j + 1, mo \o seg \o sep)

ResolvedLocal(file, full, nts, cwd) ==
    LET mo == IF ChrAt(file, 0) = "/"
              THEN DotSegmentsResolved(file, 1, <<"/">>)
              ELSE DotSegmentsResolved(file, 0, IF full THEN cwd ELSE <<>>)
    IN  IF nts /\ Len(mo) > 0 /\ mo[Len(mo)] = "/"
        THEN SubSeq(mo, 1, Len(mo) - 1)
        ELSE mo

HasRedundantSlash(s) == \E k \in 1..(Len(s) - 1) : s[k] = "/" /\ s[k + 1] = "/"

HasDotSegment(s) ==
    \E i \in 0..(Len(s) - 1) :
        /\ i = 0 \/ s[i] = "/"
        /\ SubSeq(s, i + 1, SegEnd(s, i)) \in {<<".">>, <<".", ".">>}

\* C21: FILE-TO-LOCAL drops every `.` segment, lets every `..` take away
\* the last segment written and copies every other name, those that begin
\* with `.` included, as it is.  Stated for the calls made with /full, the
\* only ones in which the code looks for `.` and `..` at all.
C21_DotSegmentsResolved ==
    path.st = "local" /\ path.full =>
        path.out = ResolvedLocal(path.in, TRUE, path.nts, path.cwd)

\* ---- The round trip through the local form ----

\* C22: a FILE! path without redundant slashes and without `.` or `..`
\* segments comes back unchanged from FILE-TO-LOCAL (without /full)
\* followed by LOCAL-TO-FILE (not as a directory).
C22_RoundTrip ==
    /\ path.st = "back" /\ ~path.full /\ ~path.nts
    /\ ~HasRedundantSlash(path.in) /\ ~HasDotSegment(path.in)
    => path.err = "" /\ path.back = path.in

\* ---- What the conversions read ----

\* C23 (as stated): the result of FILE-TO-LOCAL is a function of the text
\* and the options alone: it is the same in every current directory.
C23_Pure ==
    path.st = "local" =>
        \A d \in CurDirs :
            path.out = To_Local_Path(path.in, path.full, path.nts, d)

\* C23 (amended): the result of FILE-TO-LOCAL is the same in every current
\* directory when /full is not given or the path is absolute; with /full a
\* relative path is written after the current directory of the process.
C23_PureUnlessFullRelative ==
    path.st = "local" /\ (~path.full \/ ChrAt(path.in, 0) = "/") =>
        \A d \in CurDirs :
            path.out = To_Local_Path(path.in, path.full, path.nts, d)

\* %../c converted without /full: "../c" whatever the current directory is
C23_Witness ==
    /\ path.st = "local" /\ ~path.full
    /\ path.in = <<".", ".", "/", "c">>
    /\ path.cwd = <<"/", "c", "/", "c", "/">>
    /\ path.out = path.in

(***************************************************************************)
(* Part 9: text operations.  Decode_UTF16 (mod-utf.c) turns the bytes of   *)
(* a binary into the codepoints of a string; Analyze_String_For_Scan and   *)
(* Split_Lines (s-ops.c) walk the codepoints of a string value from its    *)
(* index.  A string is the sequence of its codepoints; the position after  *)
(* the last one holds the terminator.                                      *)
(***************************************************************************)
MaxUnits == 3
MaxTextLen == 4
LF == 10
CR == 13
TERM == 0

\* The bytes a binary to decode is made of: NUL, LF, CR and the letter a
Bytes == {0, 10, 13, 97}

\* The codepoints of the strings to analyze and to split
ScanChars == {32, 97}
LineChars == {LF, CR, 97}

SeqsUpTo(S, n) == UNION {[1..k -> S] : k \in 0..n}

\* Decode_UTF16's loop: `i` bytes of `src` are consumed, `len` are left
RECURSIVE Decode_Loop(_, _, _, _, _, _, _)
Decode_Loop(src, i, len, little_endian, crlf_to_lf, expect_lf, out) ==
    IF len <= 0 THEN out
    ELSE IF len - 1 <= 0 THEN out
    ELSE
        LET c == IF little_endian THEN src[i + 1] + 256 * src[i + 2]
                 ELSE 256 * src[i + 1] + src[i + 2]
            lf == crlf_to_lf /\ expect_lf /\ c # LF
            out1 == IF lf THEN Append(out, LF) ELSE out
            expect1 == IF lf THEN FALSE ELSE expect_lf
        IN  IF crlf_to_lf /\ c = CR
            THEN Decode_Loop(src, i + 2, len - 2, little_endian, crlf_to_lf,
                             TRUE, out1)
            ELSE Decode_Loop(src, i + 2, len - 2, little_endian, crlf_to_lf,
                             expect1, Append(out1, c))

Decode_UTF16(src, len, little_endian, crlf_to_lf) ==
    Decode_Loop(src, 0, len, little_endian, crlf_to_lf, FALSE, <<>>)

\* The codepoint at position `k` (from 0) of a string: the terminator at
\* the tail
CHR_CODE(s, k) == IF k < Len(s) THEN s[k + 1] ELSE TERM

IS_SPACE(c) == c \in {9, 32}

VAL_LEN_AT(s, index) == IF index >= Len(s) THEN 0 ELSE Len(s) - index

ScanFail(id) == [err |-> id, at |-> 0, size |-> 0]

\* Skip leading whitespace: gives the position and the length left
RECURSIVE Skip_Leading(_, _, _, _)
Skip_Leading(s, up, i, len) ==
    IF IS_SPACE(CHR_CODE(s, up)) /\ i < len
    THEN Skip_Leading(s, up + 1, i + 1, len - 1)
    ELSE [up |-> up, len |-> len]

\* Skip up to max_len non-space characters: the position, the length left,
\* the last codepoint looked at, and whether the limit was passed
RECURSIVE Skip_Chars(_, _, _, _, _, _)
Skip_Chars(s, up, len, c, num_chars, max_len) ==
    IF num_chars + 1 > max_len
    THEN [up |-> up, len |-> len, c |-> c, long |-> TRUE]
    ELSE IF len - 1 > 0 /\ ~IS_SPACE(CHR_CODE(s, up + 1))
    THEN Skip_Chars(s, up + 1, len - 1, CHR_CODE(s, up + 1), num_chars + 1,
                    max_len)
    ELSE [up |-> up + 1, len |-> len - 1,
          c |-> IF len - 1 > 0 THEN CHR_CODE(s, up + 1) ELSE c,
          long |-> FALSE]

\* The rest is checked to be spaces: the codepoint tested is the one read
\* on the previous turn
RECURSIVE Rest_Is_Space(_, _, _, _)
Rest_Is_Space(s, up, len, c) ==
    IF len <= 0 THEN TRUE
    ELSE IF ~IS_SPACE(c) THEN FALSE
    ELSE Rest_Is_Space(s, up + 1, len - 1, CHR_CODE(s, up))

Analyze_String_For_Scan(s, index, max_len) ==
    LET len0 == VAL_LEN_AT(s, index)
    IN  IF len0 = 0 THEN ScanFail("index-out-of-range")
        ELSE
          LET sk == Skip_Leading(s, index, 0, len0)
          IN  IF sk.len = 0 THEN ScanFail("index-out-of-range")
              ELSE
                LET w == Skip_Chars(s, sk.up, sk.len, CHR_CODE(s, sk.up), 0,
                                    max_len)
                IN  IF w.long THEN ScanFail("too-long")
                    ELSE IF ~Rest_Is_Space(s, w.up, w.len, w.c)
                    THEN ScanFail("invalid-chars")
                    ELSE [err |-> "", at |-> sk.up, size |-> w.up - sk.up]

\* Split_Lines' loop: `c` is the codepoint in hand, `cp` the position of
\* the next one, `mo` the text molded so far, `stack` the lines pushed
RECURSIVE Split_Loop(_, _, _, _, _, _, _, _)
Split_Loop(s, i, len, cp, c, mo, stack, last) ==
    IF ~(i < len)
    THEN [lines |-> IF mo = <<>> THEN stack ELSE Append(stack, mo),
          last |-> last]
    ELSE IF c # LF /\ c # CR
    THEN Split_Loop(s, i + 1, len, cp + 1, CHR_CODE(s, cp), Append(mo, c),
                    stack, cp)
    ELSE IF c = CR /\ CHR_CODE(s, cp) = LF
    THEN Split_Loop(s, i + 2, len, cp + 2, CHR_CODE(s, cp + 1), <<>>,
                    Append(stack, mo), cp + 1)
    ELSE Split_Loop(s, i + 1, len, cp + 1, CHR_CODE(s, cp), <<>>,
                    Append(stack, mo), cp)

Split_Lines(s, index) ==
    LET len == VAL_LEN_AT(s, index)
        i == index
    IN  IF i = len THEN [lines |-> <<>>, last |-> -1]
        ELSE Split_Loop(s, i, len, index + 1, CHR_CODE(s, index), <<>>,
                        <<>>, index)

InitText ==
    /\ \/ \E src \in SeqsUpTo(Bytes, 2 * MaxUnits),
             little_endian \in BOOLEAN, crlf_to_lf \in BOOLEAN :
             txt = [kind |-> "utf16", src |-> src, le |-> little_endian,
                    crlf |-> crlf_to_lf, st |-> "input", out |-> <<>>]
       \/ \E s \in SeqsUpTo(ScanChars, MaxTextLen) :
             \E index \in 0..Len(s), max_len \in 1..MaxTextLen :
                txt = [kind |-> "scan", s |-> s, index |-> index,
                       max_len |-> max_len, st |-> "input",
                       res |-> ScanFail("")]
       \/ \E s \in SeqsUpTo(LineChars, MaxTextLen) :
             \E index \in 0..Len(s) :
                txt = [kind |-> "lines", s |-> s, index |-> index,
                       st |-> "input", res |-> [lines |-> <<>>, last |-> -1]]
    /\ CoreIdle
    /\ CalcIdle
    /\ RedIdle
    /\ ChildIdle
    /\ WalkIdle

\* A UTF-16 codec decodes the bytes of a binary
DecodeUTF16 ==
    /\ txt.kind = "utf16" /\ txt.st = "input"
    /\ txt' = [txt EXCEPT !.st = "done",
                 !.out = Decode_UTF16(txt.src, Len(txt.src), txt.le,
                                      txt.crlf)]
    /\ UNCHANGED notTxt

\* A MAKE or TO of a string prepares it for a scan routine
AnalyzeString ==
    /\ txt.kind = "scan" /\ txt.st = "input"
    /\ txt' = [txt EXCEPT !.st = "done",
                 !.res = Analyze_String_For_Scan(txt.s, txt.index,
                                                 txt.max_len)]
    /\ UNCHANGED notTxt

\* A string value is split into its lines
SplitLines ==
    /\ txt.kind = "lines" /\ txt.st = "input"
    /\ txt' = [txt EXCEPT !.st = "done",
                 !.res = Split_Lines(txt.s, txt.index)]
    /\ UNCHANGED notTxt

NextText == DecodeUTF16 \/ AnalyzeString \/ SplitLines

SpecText == InitText /\ [][NextText]_vars

\* ---- The UTF-16 decoder's line endings ----

\* The code units the bytes hold, in the byte order asked for
RECURSIVE CodeUnits(_, _)
CodeUnits(src, little_endian) ==
    IF Len(src) < 2 THEN <<>>
    ELSE <<IF little_endian THEN src[1] + 256 * src[2]
           ELSE 256 * src[1] + src[2]>>
         \o CodeUnits(SubSeq(src, 3, Len(src)), little_endian)

\* One LF for every CR LF pair and for every lone CR
RECURSIVE CRLF_To_LF(_)
CRLF_To_LF(u) ==
    IF u = <<>> THEN <<>>
    ELSE IF u[1] # CR THEN <<u[1]>> \o CRLF_To_LF(Tail(u))
    ELSE IF Len(u) >= 2 /\ u[2] = LF
    THEN <<LF>> \o CRLF_To_LF(SubSeq(u, 3, Len(u)))
    ELSE <<LF>> \o CRLF_To_LF(Tail(u))

\* C31: when CR/LF conversion is requested, the decoded text has one LF
\* for every CR LF pair and for every lone CR of the input (a CR in the
\* last code unit included), every other code unit as it is, and no CR.
C31_OneLFPerLineEnd ==
    txt.kind = "utf16" /\ txt.st = "done" /\ txt.crlf =>
        /\ txt.out = CRLF_To_LF(CodeUnits(txt.src, txt.le))
        /\ \A k \in 1..Len(txt.out) : txt.out[k] # CR

\* ---- NAND? ----

\* C32: nand? gives false if both values are conditionally true and true
\* for every other pair of values.
C32_NandIsNotAnd ==
    calc.kind = "nand?" /\ calc.st = "done" =>
        /\ calc.res.type = "logic"
        /\ (calc.res.val = 0) <=>
               (Is_Truthy(calc.value1) /\ Is_Truthy(calc.value2))

\* ---- The `..` segments of to-local ----

\* C36: a `..` segment met when the output holds only the root separator,
\* or nothing beyond the start of this conversion's output, leaves the
\* output at the root, and the backward scan reads no character before the
\* position where the conversion began writing.
C36_PopStaysInOutput ==
    path.kind = "file" /\ path.st \in {"local", "back"} =>
        /\ path.low >= 0
        /\ (path.full /\ ~path.nts => ChrAt(path.out, 0) = "/")

\* ---- PROTECT/VALUES ----

\* Each item j.. of block n that is no word is itself protected and, if
\* deep, uncolored
RECURSIVE ItemsProtected(_, _, _, _)
ItemsProtected(inf, n, j, fl) ==
    IF j > Len(heap[n]) THEN inf
    ELSE LET done == Protect_Value(inf, heap[n][j], fl)
         IN  ItemsProtected(IF fl.deep THEN Uncolor(done, heap[n][j])
                            ELSE done,
                            n, j + 1, fl)

\* C35: PROTECT/VALUES on a block protects, for each item, the value the
\* item denotes, which for an item that is no word is the item itself: the
\* bits of the nodes are those left by protecting the items one by one, and
\* the block given as the argument is protected only if an item leads to it.
C35_ValuesProtectsItems ==
    [][(/\ pops' = pops + 1 /\ pop'.op = "protect" /\ pop'.m = "values"
        /\ pop'.n \in ArrayNodes)
         => \E i \in {0, 1}, deep \in BOOLEAN :
               info' = ItemsProtected(info, pop'.n, i + 1,
                                      NativeFlags(TRUE, deep, FALSE))]_vars

(***************************************************************************)
(* Part 10: the deep walk of Protect_Value, call by call.  `walk.stack`    *)
(* holds the running loops of Protect_Series and Protect_Context, the      *)
(* innermost last: the node whose cells are walked and the next cell.      *)
(***************************************************************************)
MaxDepth == 4

\* The heaps walked: as in Part 2, and with the string shared by several
\* cells and an array that holds itself at its head.
WalkHeaps ==
    {[a |-> <<a1, a2>>, b |-> <<b1, b2>>, o |-> <<o1>>, s |-> <<IntV>>] :
        a1 \in {Ref("b", 0), Ref("a", 1), Ref("a", 0)},
        a2 \in {IntV, Ref("o", 0), Ref("s", 0)},
        b1 \in {IntV, Ref("a", 0), Ref("s", 0)},
        b2 \in {IntV, Ref("s", 0)},
        o1 \in {Ref("a", 1), Ref("o", 0)}}

\* PROTECT and UNPROTECT with or without /deep, and the deep freeze
WalkFlags ==
    {ProtFlags(set, deep, FALSE) : set \in BOOLEAN, deep \in BOOLEAN}
        \cup {ProtFlags(TRUE, TRUE, TRUE)}

\* Protect_Value on `v` without the test of the black bit
Walk_Enter_NoBlackTest(w, inf, v) ==
    IF v.k # "ref" THEN [walk |-> w, info |-> inf]
    ELSE LET marked == ProtBits(inf, v.s, w.fl)
             seen == [w EXCEPT !.visits[v.s] = @ + 1]
         IN  IF (v.s \notin ArrayNodes \cup ContextNodes) \/ ~w.fl.deep
             THEN [walk |-> seen, info |-> marked]
             ELSE [walk |-> [seen EXCEPT !.stack =
                               Append(@, [n |-> v.s,
                                          j |-> IF v.s \in ContextNodes THEN 1
                                                ELSE v.i + 1])],
                   info |-> SetInfo(marked, v.s, "BLACK")]

\* Protect_Value on `v`, up to the loop of Protect_Series or
\* Protect_Context: a black node is left alone; otherwise the bits of the
\* node are updated (a visit) and, in a deep walk of an array or a varlist,
\* the node turns black and the loop over its cells starts.
Walk_Enter(w, inf, v) ==
    IF v.k # "ref" THEN [walk |-> w, info |-> inf]
    ELSE IF "BLACK" \in inf[v.s] THEN [walk |-> w, info |-> inf]
    ELSE LET marked == ProtBits(inf, v.s, w.fl)
             seen == [w EXCEPT !.visits[v.s] = @ + 1]
         IN  IF (v.s \notin ArrayNodes \cup ContextNodes) \/ ~w.fl.deep
             THEN [walk |-> seen, info |-> marked]
             ELSE [walk |-> [seen EXCEPT !.stack =
                               Append(@, [n |-> v.s,
                                          j |-> IF v.s \in ContextNodes THEN 1
                                                ELSE v.i + 1])],
                   info |-> SetInfo(marked, v.s, "BLACK")]

InitWalk ==
    /\ heap \in WalkHeaps
    /\ \E v \in Targets, fl \in WalkFlags :
          /\ walk = [v |-> v, fl |-> fl, stack |-> <<>>,
                     visits |-> [n \in Nodes |-> 0], st |-> "start"]
          /\ info = [n \in Nodes |-> IF fl.set THEN {} ELSE {"PROTECTED"}]
    /\ perr = "none"
    /\ pop = [op |-> "init", n |-> "a"]
    /\ pops = 0
    /\ varbits = [j \in 1..1 |-> {}]
    /\ SerIdle
    /\ ActIdle
    /\ StubIdle
    /\ PathIdle
    /\ CalcIdle
    /\ RedIdle
    /\ ChildIdle
    /\ TxtIdle

\* Protect_Value is called on the argument
WalkStart ==
    /\ walk.st = "start"
    /\ LET r == Walk_Enter(walk, info, walk.v)
       IN  /\ walk' = [r.walk EXCEPT !.st = "walking"]
           /\ info' = r.info
    /\ UNCHANGED notWalk

\* The innermost loop calls Protect_Value on its next cell
WalkCell ==
    /\ walk.st = "walking" /\ walk.stack # <<>>
    /\ Len(walk.stack) < MaxDepth
    /\ LET top == walk.stack[Len(walk.stack)]
       IN  /\ top.j <= Len(heap[top.n])
           /\ LET r == Walk_Enter(
                         [walk EXCEPT !.stack[Len(walk.stack)].j = @ + 1],
                         info, heap[top.n][top.j])
              IN  /\ walk' = r.walk
                  /\ info' = r.info
    /\ UNCHANGED notWalk

\* The innermost loop has reached the tail: its call returns
WalkReturn ==
    /\ walk.st = "walking" /\ walk.stack # <<>>
    /\ LET top == walk.stack[Len(walk.stack)]
       IN  top.j > Len(heap[top.n])
    /\ walk' = [walk EXCEPT !.stack = SubSeq(@, 1, Len(@) - 1)]
    /\ UNCHANGED <<info, notWalk>>

\* Protect_Value has returned to its caller, which uncolors after a deep
\* walk
WalkFinish ==
    /\ walk.st = "walking" /\ walk.stack = <<>>
    /\ info' = IF walk.fl.deep THEN Uncolor(info, walk.v) ELSE info
    /\ walk' = [walk EXCEPT !.st = "done"]
    /\ UNCHANGED notWalk

NextWalk == WalkStart \/ WalkCell \/ WalkReturn \/ WalkFinish

SpecWalk == InitWalk /\ [][NextWalk]_vars /\ WF_vars(NextWalk)

\* ---- Termination of the deep walk ----

\* C34 (as stated): a deep protect, unprotect or freeze terminates on every
\* value graph, cyclic ones included, and has then visited each series at
\* most once.
C34_EachSeriesOnce ==
    <>(walk.st = "done" /\ \A n \in Nodes : walk.visits[n] <= 1)

\* C34 (amended): a deep protect, unprotect or freeze terminates on every
\* value graph, cyclic ones included, and has then visited each array and
\* each varlist at most once; a series that is no array is not colored and
\* is visited once for every reference to it that the walk meets.
C34_EachArrayOnce ==
    <>(/\ walk.st = "done"
       /\ \A n \in ArrayNodes \cup ContextNodes : walk.visits[n] <= 1
       /\ \A n \in Nodes : "BLACK" \notin info[n])

\* A deep walk from the head of "a" has ended on a heap where "a" holds
\* itself and "b", "b" holds "a", and the context holds itself: each of
\* them was visited once.
C34_Witness ==
    /\ walk.st = "done" /\ walk.fl.deep /\ walk.v = Ref("a", 0)
    /\ heap["a"] = <<Ref("a", 0), Ref("o", 0)>>
    /\ heap["o"] = <<Ref("o", 0)>>
    /\ walk.visits["a"] = 1 /\ walk.visits["o"] = 1

\* ---- Analyze_String_For_Scan: leading whitespace ----

AllSpaceFrom(s, index) == \A k \in (index + 1)..Len(s) : IS_SPACE(s[k])

\* The position (from 0) of the first character from `index` on that is
\* not a space
FirstNonSpace(s, index) ==
    CHOOSE k \in index..(Len(s) - 1) :
        /\ ~IS_SPACE(s[k + 1])
        /\ \A j \in index..(k - 1) : IS_SPACE(s[j + 1])

\* C39: Analyze_String_For_Scan fails with index-out-of-range for every
\* string that is empty or only whitespace, of any length; for any other
\* string it does not fail so, and the position it returns is that of the
\* first character that is not a space.
C39_SkipsAllLeadingSpace ==
    txt.kind = "scan" /\ txt.st = "done" =>
        IF AllSpaceFrom(txt.s, txt.index)
        THEN txt.res.err = "index-out-of-range"
        ELSE /\ txt.res.err # "index-out-of-range"
             /\ txt.res.err = "" =>
                    txt.res.at = FirstNonSpace(txt.s, txt.index)

\* ---- Split_Lines ----

\* The lines of a text: each CR LF pair, lone LF and lone CR ends one
\* line; what is left after the last break is a line when it is not empty
RECURSIVE LinesOf(_, _, _)
LinesOf(t, cur, acc) ==
    IF t = <<>> THEN (IF cur = <<>> THEN acc ELSE Append(acc, cur))
    ELSE IF Len(t) > 1 /\ t[1] = CR /\ t[2] = LF
    THEN LinesOf(SubSeq(t, 3, Len(t)), <<>>, Append(acc, cur))
    ELSE IF t[1] \in {LF, CR}
    THEN LinesOf(Tail(t), <<>>, Append(acc, cur))
    ELSE LinesOf(Tail(t), Append(cur, t[1]), acc)

\* C40: Split_Lines gives, for a string value at any index, the lines of
\* the text from that index to the tail, and reads no position before the
\* index or past the tail.
C40_LinesFromIndexToTail ==
    txt.kind = "lines" /\ txt.st = "done" =>
        /\ txt.res.lines =
               LinesOf(SubSeq(txt.s, txt.index + 1, Len(txt.s)), <<>>, <<>>)
        /\ txt.res.last <= Len(txt.s)

====
